---- MODULE Spec2Model ----
(***************************************************************************)
(* Magic-link authentication core of taylorsatula/crm: AuthService,        *)
(* SessionManager, RateLimiter and the stores they share.                  *)
(*                                                                         *)
(* Every handler is written as a chain of steps, one per store access.     *)
(* A step is an operator from (world, call) to (world, call); Run chains   *)
(* the steps of one call to its end.  The sequential specifications take   *)
(* a whole call as one action (Run); the concurrent specification takes    *)
(* one step as one action, so that calls of several workers interleave at  *)
(* their store accesses.                                                   *)
(*                                                                         *)
(* Time is a tick counter.  Durations of the configuration (minutes,       *)
(* hours, seconds) are scaled to small numbers of ticks.                   *)
(***************************************************************************)
EXTENDS Integers, Sequences, FiniteSets, TLC

(***************************************************************************)
(* Bounds of the model.                                                    *)
(***************************************************************************)
MaxTime == 4
MaxTokens == 2
MaxSessions == 2
MaxAttempts == 2
ExtraAttempts == 2
MagicLinkExpiry == 2
SessionLifetime == 2
RateLimitWindow == 2
\* the enumeration window (900 seconds in auth/service.py), in clock ticks
ENUMERATION_WINDOW_SECONDS == 2
MaxEvents == 3
MaxDays == 1

(***************************************************************************)
(* Program constants.                                                      *)
(***************************************************************************)
ENUMERATION_LIMIT == 3

NoExpiry == 0 - 1
NoKey == 0 - 2

UserIds == {"U1"}
IPs == {"ip1", "ip2"}
Names == {"a", "u", "v"}

\* An email as the caller sends it: a name, possibly in upper case and
\* possibly padded with blanks.
RawEmails ==
    {[local |-> n, upper |-> FALSE, padded |-> FALSE] : n \in Names}
        \cup {[local |-> "a", upper |-> TRUE, padded |-> TRUE]}

Lower(e) == [e EXCEPT !.upper = FALSE]
Strip(e) == [e EXCEPT !.padded = FALSE]

NoEmail == [local |-> "", upper |-> FALSE, padded |-> FALSE]

Max(a, b) == IF a >= b THEN a ELSE b

VARIABLES
    now,                 \* the clock, in ticks (utils.timezone.now_utc)
    users,               \* table users: id -> row
    tokens,              \* table magic_link_tokens: token -> row
    kv,                  \* the TTL store: key -> [val, exp]
    nextTok,             \* number of magic-link tokens generated so far
    nextSess,            \* number of session tokens generated so far
    rate_limit_attempts, \* AuthConfig.rate_limit_attempts
    calls,               \* worker -> the call it runs or has last finished
    wins,                \* history: token -> successful verifications
    revoked,             \* history: created session tokens that were revoked
    issued,              \* history: session token -> the session last returned for it
    rlCalls,             \* history: email -> calls checked since its counter appeared
    rlRetry,             \* history: email -> retry-after of the last refusal since then
    enSignups,           \* history: ip -> needs_signup answers since its counter appeared
    seclog               \* table security_events, its archive file, and the
                         \* processes that insert into it and rotate it

vars == <<now, users, tokens, kv, nextTok, nextSess, rate_limit_attempts,
          calls, wins, revoked, issued, rlCalls, rlRetry, enSignups, seclog>>

workers == DOMAIN calls

(***************************************************************************)
(* The TTL store (clients/valkey_client.py).  A key with an expiry is      *)
(* gone once the clock reaches the expiry.                                 *)
(***************************************************************************)
SessionKey(token) == <<"session", token>>
RateKey(email) == <<"ratelimit", Lower(email)>>
EnumerationKey(ip) == <<"enumeration", ip>>

Has(store, key) == key \in DOMAIN store

Put(store, key, entry) ==
    [k \in DOMAIN store \cup {key} |-> IF k = key THEN entry ELSE store[k]]

KvSetex(store, t, key, value, seconds) ==
    Put(store, key, [val |-> value, exp |-> t + seconds])

KvDelete(store, key) == [k \in DOMAIN store \ {key} |-> store[k]]

KvIncr(store, key) ==
    IF Has(store, key)
    THEN Put(store, key, [val |-> store[key].val + 1, exp |-> store[key].exp])
    ELSE Put(store, key, [val |-> 1, exp |-> NoExpiry])

\* ValkeyClient.get: the value as the string the server returns, or None.
None == <<"None">>
str(n) == <<"str", n>>
int(x) == x[2]
KvGet(store, key) == IF Has(store, key) THEN str(store[key].val) ELSE None

KvTtl(store, t, key) ==
    IF ~Has(store, key) THEN NoKey
    ELSE IF store[key].exp = NoExpiry THEN NoExpiry
    ELSE store[key].exp - t

Purge(store, t) ==
    LET live == {k \in DOMAIN store : store[k].exp = NoExpiry \/ store[k].exp > t}
    IN  [k \in live |-> store[k]]

(***************************************************************************)
(* Timestamps in the session record are written as ISO strings and parsed  *)
(* back on read.                                                           *)
(***************************************************************************)
isoformat(t) == <<"iso", t>>
parse_iso(s) == s[2]

(***************************************************************************)
(* The relational store (auth/database.py).                                *)
(***************************************************************************)
NoUser == [found |-> FALSE]
NoToken == [found |-> FALSE]
NoSession == [found |-> FALSE]

get_user_by_email(W, email) ==
    LET ids == {u \in DOMAIN W.users : W.users[u].email = Lower(email)}
    IN  IF ids = {} THEN NoUser
        ELSE LET u == CHOOSE x \in ids : TRUE
             IN  [found |-> TRUE, id |-> u, email |-> W.users[u].email,
                  is_active |-> W.users[u].is_active,
                  last_login_at |-> W.users[u].last_login_at]

get_user_by_id(W, u) ==
    IF u \notin DOMAIN W.users THEN NoUser
    ELSE [found |-> TRUE, id |-> u, email |-> W.users[u].email,
          is_active |-> W.users[u].is_active,
          last_login_at |-> W.users[u].last_login_at]

get_magic_link_token(W, t) ==
    IF t \notin DOMAIN W.tokens THEN NoToken
    ELSE [found |-> TRUE, token |-> t, user_id |-> W.tokens[t].user_id,
          email |-> W.tokens[t].email, created_at |-> W.tokens[t].created_at,
          expires_at |-> W.tokens[t].expires_at, used |-> W.tokens[t].used]

store_magic_link_token(W, t, row) ==
    [W EXCEPT !.tokens = Put(W.tokens, t, row)]

\* mark_token_used with the WHERE clause on the user instead of the token
mark_token_used_of_user(W, t) ==
    IF t \in DOMAIN W.tokens
    THEN [W EXCEPT !.tokens = [x \in DOMAIN W.tokens |->
              IF W.tokens[x].user_id = W.tokens[t].user_id
              THEN [W.tokens[x] EXCEPT !.used = TRUE, !.used_at = W.now]
              ELSE W.tokens[x]]]
    ELSE W

mark_token_used(W, t) ==
    IF t \in DOMAIN W.tokens
    THEN [W EXCEPT !.tokens = Put(W.tokens, t,
              [W.tokens[t] EXCEPT !.used = TRUE, !.used_at = W.now])]
    ELSE W

update_last_login(W, u) ==
    IF u \in DOMAIN W.users
    THEN [W EXCEPT !.users = Put(W.users, u,
              [W.users[u] EXCEPT !.last_login_at = W.now])]
    ELSE W

(***************************************************************************)
(* A call: the arguments, the position in the handler, the locals and the  *)
(* outcome.                                                                *)
(***************************************************************************)
IdleCall ==
    [op |-> "none", pc |-> "done", raw |-> NoEmail, email |-> NoEmail,
     ip |-> "ip1", tok |-> 0, gw |-> "ok",
     mt |-> NoToken, user |-> NoUser, count |-> 0, session |-> NoSession,
     outcome |-> "none", sent |-> FALSE, needs_signup |-> FALSE, retry |-> 0,
     invoked |-> FALSE, stored |-> 0, evs |-> <<>>, flip |-> FALSE,
     audit |-> "ok", fault |-> "none", failed |-> FALSE,
     cookie |-> TRUE, who |-> [email |-> NoEmail, user_id |-> "None"],
     remaining |-> 0, ttl |-> 0, message |-> "", deleted |-> 0,
     path |-> <<"/">>, handler |-> "returns", ran |-> FALSE,
     ctx |-> "None", seen |-> "None", status |-> 0, clock |-> 0]

Out(W, c) == [w |-> W, c |-> c]

\* An exception that a store call has raised inside a statement ends the
\* call: what follows in the statement does not happen.
Goto(c, label) == IF c.failed THEN c ELSE [c EXCEPT !.pc = label]
Raise(c, error) == IF c.failed THEN c ELSE [c EXCEPT !.pc = "done", !.outcome = error]
Return(c) == IF c.failed THEN c ELSE [c EXCEPT !.pc = "done", !.outcome = "returned"]

\* The message an exception is built with.
Message(c, text) == IF c.failed THEN c ELSE [c EXCEPT !.message = text]

\* A store call that fails (connection lost, timeout) raises to its caller.
Fail(c, error) == [c EXCEPT !.pc = "done", !.outcome = error, !.failed = TRUE]

\* SecurityLogger.log: one insert into security_events, with nothing around
\* it that catches a failure of the insert; the call keeps the events it
\* has inserted.
log(c, event, reason) ==
    IF c.audit = "fail"
    THEN Fail(c, "DatabaseError")
    ELSE [c EXCEPT !.evs = Append(@, <<event, reason>>)]

(***************************************************************************)
(* AuthService.request_magic_link (auth/service.py), with                  *)
(* RateLimiter.check_rate_limit (auth/rate_limiter.py) in its place.       *)
(***************************************************************************)

\* line 114 without the strip, then _check_enumeration_limit
rq_check_enumeration_no_strip(W, c) ==
    LET key == EnumerationKey(c.ip)
        c1 == [c EXCEPT !.email = Lower(c.raw)]
    IN  IF Has(W.kv, key) /\ W.kv[key].val >= ENUMERATION_LIMIT
        THEN Out(W, Goto(c1, "rq_enumeration_ttl"))
        ELSE Out(W, Goto(c1, "rq_lookup"))

\* line 114, then a guard that lets the emails of existing users through
rq_check_enumeration_unknown_only(W, c) ==
    LET key == EnumerationKey(c.ip)
        c1 == [c EXCEPT !.email = Strip(Lower(c.raw))]
    IN  IF /\ Has(W.kv, key) /\ W.kv[key].val >= ENUMERATION_LIMIT
           /\ ~get_user_by_email(W, c1.email).found
        THEN Out(W, Goto(c1, "rq_enumeration_ttl"))
        ELSE Out(W, Goto(c1, "rq_lookup"))

\* line 114, then _check_enumeration_limit up to its test of the count
rq_check_enumeration(W, c) ==
    LET key == EnumerationKey(c.ip)
        c1 == [c EXCEPT !.email = Strip(Lower(c.raw))]
    IN  IF Has(W.kv, key) /\ W.kv[key].val >= ENUMERATION_LIMIT
        THEN Out(W, Goto(c1, "rq_enumeration_ttl"))
        ELSE Out(W, Goto(c1, "rq_lookup"))

\* _check_enumeration_limit with the TTL as the retry-after
rq_enumeration_ttl_raw(W, c) ==
    LET ttl == KvTtl(W.kv, W.now, EnumerationKey(c.ip))
    IN  Out(W, [Raise(c, "RateLimitedError") EXCEPT !.retry = ttl, !.ttl = ttl])

\* _check_enumeration_limit: the TTL query and the raise
rq_enumeration_ttl(W, c) ==
    LET ttl == KvTtl(W.kv, W.now, EnumerationKey(c.ip))
    IN  Out(W, [Raise(c, "RateLimitedError") EXCEPT !.retry = Max(ttl, 1), !.ttl = ttl])

rq_lookup(W, c) ==
    LET user == get_user_by_email(W, c.email)
    IN  IF user.found
        THEN Out(W, Goto([c EXCEPT !.user = user], "rq_rate_incr"))
        ELSE Out(W, Goto([c EXCEPT !.user = user], "rq_enumeration_incr"))

\* _increment_enumeration_counter: the increment
rq_enumeration_incr(W, c) ==
    LET key == EnumerationKey(c.ip)
        store == KvIncr(W.kv, key)
        count == store[key].val
    IN  Out([W EXCEPT !.kv = store],
            Goto([c EXCEPT !.count = count],
                 IF count = 1 THEN "rq_enumeration_expire" ELSE "rq_log_not_found"))

\* _increment_enumeration_counter, line 84: the call of expire for a first
\* attempt.  ValkeyClient defines get, set, delete, exists, ttl, incr,
\* set_json and get_json and no expire: the attribute lookup raises and the
\* counter is left without an expiry.
rq_enumeration_expire(W, c) == Out(W, Raise(c, "AttributeError"))

rq_log_not_found(W, c) ==
    LET c1 == log(c, "magic_link_failed", "user_not_found")
    IN  Out(W, Return([c1 EXCEPT !.sent = FALSE, !.needs_signup = ~c1.failed]))

\* check_rate_limit's increment, counting the attempt against the origin too
rq_rate_incr_counts_origin(W, c) ==
    LET key == RateKey(c.email)
        store == KvIncr(KvIncr(W.kv, EnumerationKey(c.ip)), key)
    IN  Out([W EXCEPT !.kv = store],
            Goto([c EXCEPT !.count = store[key].val], "rq_rate_expire"))

\* check_rate_limit: the increment
rq_rate_incr(W, c) ==
    LET key == RateKey(c.email)
        store == KvIncr(W.kv, key)
    IN  Out([W EXCEPT !.kv = store],
            Goto([c EXCEPT !.count = store[key].val], "rq_rate_expire"))

\* check_rate_limit with lines 40-46 left out: no expiry, no test of the count
rq_rate_expire_unchecked(W, c) == Out(W, Goto(c, "rq_store"))

\* check_rate_limit, line 40: the call of expire, which ValkeyClient does
\* not define: the attribute lookup raises, the counter is left without an
\* expiry and lines 43-46 are not reached.
rq_rate_expire(W, c) == Out(W, Raise(c, "AttributeError"))

\* check_rate_limit, lines 43-46: the test of the count, the TTL query and
\* the raise
rq_rate_ttl(W, c) ==
    IF c.count > W.attempts
    THEN LET ttl == KvTtl(W.kv, W.now, RateKey(c.email))
         IN  Out(W, [Raise(c, "RateLimitedError") EXCEPT !.retry = Max(ttl, 1), !.ttl = ttl])
    ELSE Out(W, Goto(c, "rq_store"))

\* lines 140-152: a new token, stored
rq_store(W, c) ==
    LET t == W.nextTok + 1
        row == [user_id |-> c.user.id, email |-> c.user.email,
                created_at |-> W.now, expires_at |-> W.now + MagicLinkExpiry,
                used |-> FALSE, used_at |-> NoExpiry]
    IN  Out([store_magic_link_token(W, t, row) EXCEPT !.nextTok = t],
            Goto([c EXCEPT !.stored = t], "rq_log_requested"))

rq_log_requested(W, c) ==
    Out(W, Goto(log(c, "magic_link_requested", ""), "rq_send"))

\* lines 164-168: the sender is invoked; the gateway accepts the mail or raises
rq_send(W, c) ==
    IF c.gw = "ok"
    THEN Out(W, Goto([c EXCEPT !.invoked = TRUE], "rq_log_sent"))
    ELSE Out(W, Raise([c EXCEPT !.invoked = TRUE], "EmailGatewayError"))

rq_log_sent(W, c) ==
    LET c1 == log(c, "magic_link_sent", "")
    IN  Out(W, Return([c1 EXCEPT !.sent = ~c1.failed, !.needs_signup = FALSE]))

(***************************************************************************)
(* SessionManager (auth/session.py).                                       *)
(***************************************************************************)
SessionJson(session) ==
    [user_id |-> session.user_id,
     created_at |-> isoformat(session.created_at),
     expires_at |-> isoformat(session.expires_at),
     last_activity_at |-> isoformat(session.last_activity_at)]

SessionOf(token, data) ==
    [found |-> TRUE, token |-> token, user_id |-> data.user_id,
     created_at |-> parse_iso(data.created_at),
     expires_at |-> parse_iso(data.expires_at),
     last_activity_at |-> parse_iso(data.last_activity_at)]

\* create_session: a new token, the record stored under it with the
\* lifetime as its TTL
create_session(W, c, user_id, next) ==
    LET token == W.nextSess + 1
        session == [found |-> TRUE, token |-> token, user_id |-> user_id,
                    created_at |-> W.now,
                    expires_at |-> W.now + SessionLifetime,
                    last_activity_at |-> W.now]
    IN  Out([W EXCEPT !.nextSess = token,
                      !.kv = KvSetex(W.kv, W.now, SessionKey(token),
                                     SessionJson(session), SessionLifetime)],
            Goto([c EXCEPT !.session = session], next))

sc_create(W, c) ==
    LET r == create_session(W, c, c.user.id, "done")
    IN  Out(r.w, Return(r.c))

\* validate_session: the read of the record
sv_get(W, c) ==
    LET key == SessionKey(c.tok)
    IN  IF ~Has(W.kv, key)
        THEN Out(W, Raise(c, "SessionExpiredError"))
        ELSE Out(W, Goto([c EXCEPT !.session = SessionOf(c.tok, W.kv[key].val)],
                         "sv_check"))

\* validate_session with a look at the user's record: the session of a
\* deactivated user is refused
sv_check_user_active(W, c) ==
    IF W.now > c.session.expires_at
    THEN Out([W EXCEPT !.kv = KvDelete(W.kv, SessionKey(c.tok))],
             Raise(c, "SessionExpiredError"))
    ELSE IF ~get_user_by_id(W, c.session.user_id).is_active
    THEN Out(W, Raise(c, "SessionExpiredError"))
    ELSE Out(W, Goto(c, "sv_clock"))

\* validate_session: the in-band expiry check
sv_check(W, c) ==
    IF W.now > c.session.expires_at
    THEN Out([W EXCEPT !.kv = KvDelete(W.kv, SessionKey(c.tok))],
             Raise(c, "SessionExpiredError"))
    ELSE Out(W, Goto(c, "sv_clock"))

\* _extend_session, line 87: the reading of the clock
sv_clock(W, c) == Out(W, Goto([c EXCEPT !.clock = W.now], "sv_extend"))

\* _extend_session that rewrites the record as it was read
sv_extend_keeps_expiry(W, c) ==
    Out([W EXCEPT !.kv = KvSetex(W.kv, W.now, SessionKey(c.session.token),
                                 SessionJson(c.session), SessionLifetime)],
        Return(c))

\* _extend_session that stamps created_at anew
sv_extend_recreates(W, c) ==
    LET updated == [c.session EXCEPT !.created_at = W.now,
                                     !.expires_at = W.now + SessionLifetime,
                                     !.last_activity_at = W.now]
    IN  Out([W EXCEPT !.kv = KvSetex(W.kv, W.now, SessionKey(updated.token),
                                     SessionJson(updated), SessionLifetime)],
            Return([c EXCEPT !.session = updated]))

\* _extend_session that writes the record without expire_seconds
sv_extend_no_ttl(W, c) ==
    LET updated == [c.session EXCEPT !.expires_at = W.now + SessionLifetime,
                                     !.last_activity_at = W.now]
    IN  Out([W EXCEPT !.kv = Put(W.kv, SessionKey(updated.token),
                                 [val |-> SessionJson(updated), exp |-> NoExpiry])],
            Return([c EXCEPT !.session = updated]))

\* _extend_session, lines 88-121: the record is built from the clock as it
\* was read and written with a TTL that starts at the write
sv_extend(W, c) ==
    LET updated == [c.session EXCEPT !.expires_at = c.clock + SessionLifetime,
                                     !.last_activity_at = c.clock]
    IN  Out([W EXCEPT !.kv = KvSetex(W.kv, W.now, SessionKey(updated.token),
                                     SessionJson(updated), SessionLifetime)],
            Return([c EXCEPT !.session = updated]))

\* revoke_session that leaves the key in place
rv_delete_noop(W, c) == Out(W, Return(c))

\* revoke_session that deletes every session
rv_delete_all(W, c) ==
    Out([W EXCEPT !.kv = [k \in {k \in DOMAIN W.kv : k[1] # "session"} |-> W.kv[k]]],
        Return(c))

\* revoke_session
rv_delete(W, c) ==
    Out([W EXCEPT !.kv = KvDelete(W.kv, SessionKey(c.tok))], Return(c))

(***************************************************************************)
(* AuthService.verify_magic_link (auth/service.py).                        *)
(***************************************************************************)

\* lines 202-234 without the expiry check
v_lookup_no_expiry(W, c) ==
    LET mt == get_magic_link_token(W, c.tok)
        c1 == [c EXCEPT !.mt = mt]
    IN  IF ~mt.found
        THEN Out(W, Raise(log(c1, "magic_link_failed", "token_not_found"),
                          "InvalidTokenError"))
        ELSE IF mt.used
        THEN Out(W, Raise(log(c1, "magic_link_already_used", ""), "InvalidTokenError"))
        ELSE Out(W, Goto(c1, "v_user"))

\* lines 202-234 without the check of the used flag
v_lookup_no_used(W, c) ==
    LET mt == get_magic_link_token(W, c.tok)
        c1 == [c EXCEPT !.mt = mt]
    IN  IF ~mt.found
        THEN Out(W, Raise(log(c1, "magic_link_failed", "token_not_found"),
                          "InvalidTokenError"))
        ELSE IF W.now > mt.expires_at
        THEN Out(W, Raise(log(c1, "magic_link_expired", ""), "InvalidTokenError"))
        ELSE Out(W, Goto(c1, "v_user"))

\* lines 202-234: the token is read and refused when absent, used or expired
v_lookup(W, c) ==
    LET mt == get_magic_link_token(W, c.tok)
        c1 == [c EXCEPT !.mt = mt]
    IN  IF ~mt.found
        THEN Out(W, Raise(Message(log(c1, "magic_link_failed", "token_not_found"),
                                  "Invalid or expired token"),
                          "InvalidTokenError"))
        ELSE IF mt.used
        THEN Out(W, Raise(Message(log(c1, "magic_link_already_used", ""),
                                  "Token has already been used"),
                          "InvalidTokenError"))
        ELSE IF W.now > mt.expires_at
        THEN Out(W, Raise(Message(log(c1, "magic_link_expired", ""),
                                  "Token has expired"),
                          "InvalidTokenError"))
        ELSE Out(W, Goto(c1, "v_user"))

\* lines 236-250 with the token marked used before the user is looked at
v_user_marks_first(W, c) ==
    LET user == get_user_by_id(W, c.mt.user_id)
        c1 == [c EXCEPT !.user = user]
        W1 == mark_token_used(W, c.tok)
    IN  IF ~user.found
        THEN Out(W1, Raise(c1, "InvalidTokenError"))
        ELSE IF ~user.is_active
        THEN Out(W1, Raise(log(c1, "magic_link_failed", "user_inactive"),
                           "UserInactiveError"))
        ELSE Out(W1, Goto(c1, "v_mark"))

\* lines 237-250
v_user(W, c) ==
    LET user == get_user_by_id(W, c.mt.user_id)
        c1 == [c EXCEPT !.user = user]
    IN  IF ~user.found
        THEN Out(W, Raise(Message(c1, "User not found"), "InvalidTokenError"))
        ELSE IF ~user.is_active
        THEN Out(W, Raise(Message(log(c1, "magic_link_failed", "user_inactive"),
                                  "User account is deactivated"),
                          "UserInactiveError"))
        ELSE Out(W, Goto(c1, "v_mark"))

\* line 253
v_mark(W, c) == Out(mark_token_used(W, c.tok), Goto(c, "v_session"))

\* line 256
v_session(W, c) == create_session(W, c, c.user.id, "v_last_login")

\* line 259
v_last_login(W, c) == Out(update_last_login(W, c.user.id), Goto(c, "v_reset_rate"))

\* line 262, RateLimiter.reset_rate_limit
v_reset_rate(W, c) ==
    Out([W EXCEPT !.kv = KvDelete(W.kv, RateKey(c.user.email))],
        Goto(c, "v_reset_enumeration"))

\* line 263, _reset_enumeration_counter
v_reset_enumeration(W, c) ==
    Out([W EXCEPT !.kv = KvDelete(W.kv, EnumerationKey(c.ip))], Goto(c, "v_log"))

\* lines 266-280 with the two log calls exchanged
v_log_session_first(W, c) ==
    Out(W, Goto(log(log(c, "session_created", ""), "magic_link_verified", ""),
                "v_refresh"))

\* lines 266-280
v_log(W, c) ==
    Out(W, Goto(log(log(c, "magic_link_verified", ""), "session_created", ""),
                "v_refresh"))

\* lines 283-285
v_refresh(W, c) ==
    Out(W, Return([c EXCEPT !.user = get_user_by_id(W, c.user.id)]))

(***************************************************************************)
(* AuthDatabase.cleanup_expired_tokens (auth/database.py).                 *)
(***************************************************************************)

\* the sweep with expires_at <= now as its condition
ct_delete_at_expiry(W, c) ==
    LET rows == {t \in DOMAIN W.tokens : W.tokens[t].expires_at <= W.now}
    IN  Out([W EXCEPT !.tokens = [t \in DOMAIN W.tokens \ rows |-> W.tokens[t]]],
            Return([c EXCEPT !.deleted = Cardinality(rows)]))

\* DELETE FROM magic_link_tokens WHERE expires_at < now RETURNING token;
\* the number of rows returned
ct_delete(W, c) ==
    LET rows == {t \in DOMAIN W.tokens : W.tokens[t].expires_at < W.now}
    IN  Out([W EXCEPT !.tokens = [t \in DOMAIN W.tokens \ rows |-> W.tokens[t]]],
            Return([c EXCEPT !.deleted = Cardinality(rows)]))

(***************************************************************************)
(* RateLimiter.get_remaining_attempts (auth/rate_limiter.py).              *)
(***************************************************************************)

\* get_remaining_attempts without the floor at 0
ra_get_no_floor(W, c) ==
    LET current == KvGet(W.kv, RateKey(c.email))
    IN  IF current = None
        THEN Out(W, Return([c EXCEPT !.remaining = W.attempts]))
        ELSE Out(W, Return([c EXCEPT !.remaining = W.attempts - int(current)]))

ra_get(W, c) ==
    LET current == KvGet(W.kv, RateKey(c.email))
    IN  IF current = None
        THEN Out(W, Return([c EXCEPT !.remaining = W.attempts]))
        ELSE Out(W, Return([c EXCEPT !.remaining = Max(W.attempts - int(current), 0)]))

(***************************************************************************)
(* Logout: the route (auth/api.py) and AuthService.logout.                 *)
(***************************************************************************)
RECURSIVE Run(_, _)

\* api.py, lines 131-134: the service is called when a cookie is present
lo_route(W, c) == Out(W, Goto(c, IF c.cookie THEN "lo_try" ELSE "lo_clear"))

\* service.py, lines 293-300 with the except clause left out: a session
\* that does not validate ends the logout
lo_try_propagates(W, c) ==
    LET r == Run(W, [c EXCEPT !.pc = "sv_get"])
    IN  IF r.c.outcome = "returned"
        THEN Out(r.w, [r.c EXCEPT !.pc = "lo_revoke", !.outcome = "none",
                                  !.who = [email |-> get_user_by_id(r.w, r.c.session.user_id).email,
                                           user_id |-> r.c.session.user_id]])
        ELSE Out(r.w, r.c)

\* service.py, lines 293-300: the session is validated and its user read
\* for the audit event; whatever either raises is caught and the event is
\* then written without email and user_id
lo_try(W, c) ==
    LET r == Run(W, [c EXCEPT !.pc = "sv_get"])
        user == get_user_by_id(r.w, r.c.session.user_id)
        null == [email |-> NoEmail, user_id |-> "None"]
        next == [r.c EXCEPT !.pc = "lo_revoke", !.outcome = "none", !.failed = FALSE,
                            !.session = NoSession]
    IN  IF r.c.outcome = "returned" /\ c.fault # "lo_user"
        THEN Out(r.w, [next EXCEPT !.who = [email |-> IF user.found THEN user.email
                                                       ELSE NoEmail,
                                            user_id |-> r.c.session.user_id]])
        ELSE Out(r.w, [next EXCEPT !.who = null])

\* service.py, line 303
lo_revoke(W, c) ==
    Out([W EXCEPT !.kv = KvDelete(W.kv, SessionKey(c.tok))], Goto(c, "lo_log"))

\* service.py, lines 306-311
lo_log(W, c) == Out(W, Goto(log(c, "session_revoked", ""), "lo_clear"))

\* api.py, lines 140-143
lo_clear(W, c) == Out(W, Return(c))

(***************************************************************************)
(* AuthMiddleware.dispatch (auth/security_middleware.py) around a request  *)
(* handler.  ctx is the context variable of utils/user_context.py; the     *)
(* handler notes the value it sees.                                        *)
(***************************************************************************)

\* A path is a sequence of pieces of text, <<"/health", "z">> for /healthz;
\* the listed paths are one piece each.
PUBLIC_PATHS ==
    <<"/auth/request-link", "/auth/verify", "/auth/logout", "/health", "/docs",
      "/openapi.json", "/assets/">>

\* str.startswith
startswith(text, prefix) ==
    Len(prefix) <= Len(text) /\ SubSeq(text, 1, Len(prefix)) = prefix

\* _is_public_path, lines 39-44
is_public_path(path) ==
    \E i \in DOMAIN PUBLIC_PATHS :
        path = <<PUBLIC_PATHS[i]>> \/ startswith(path, <<PUBLIC_PATHS[i]>>)

\* lines 48-63: public paths go straight to the handler; no cookie, 401
mw_dispatch(W, c) ==
    IF is_public_path(c.path)
    THEN Out(W, Goto(c, "mw_public"))
    ELSE IF ~c.cookie
    THEN Out(W, Return([c EXCEPT !.status = 401]))
    ELSE Out(W, Goto(c, "mw_validate"))

\* line 52: call_next for a public path
mw_public(W, c) ==
    LET c1 == [c EXCEPT !.ran = TRUE, !.seen = c.ctx]
    IN  IF c.handler = "returns"
        THEN Out(W, Return([c1 EXCEPT !.status = 200]))
        ELSE Out(W, Raise(c1, "HandlerError"))

\* lines 66-76: SessionExpiredError is answered 401; any other exception
\* of validate_session leaves dispatch
mw_validate(W, c) ==
    LET r == Run(W, [c EXCEPT !.pc = "sv_get"])
    IN  IF r.c.outcome = "returned"
        THEN Out(r.w, [r.c EXCEPT !.pc = "mw_set", !.outcome = "none"])
        ELSE IF r.c.outcome = "SessionExpiredError"
        THEN Out(r.w, [r.c EXCEPT !.outcome = "returned", !.status = 401])
        ELSE Out(r.w, r.c)

\* lines 78-81
mw_set(W, c) == Out(W, Goto([c EXCEPT !.ctx = c.session.user_id], "mw_handler"))

\* lines 83-88 with the clearing after the call instead of in a finally
mw_handler_no_finally(W, c) ==
    LET c1 == [c EXCEPT !.ran = TRUE, !.seen = c.ctx]
    IN  IF c.handler = "returns"
        THEN Out(W, Goto([c1 EXCEPT !.status = 200], "mw_finally"))
        ELSE Out(W, Raise(c1, "HandlerError"))

\* lines 83-85: call_next; the handler returns a response or raises
mw_handler(W, c) ==
    LET c1 == [c EXCEPT !.ran = TRUE, !.seen = c.ctx]
    IN  IF c.handler = "returns"
        THEN Out(W, Goto([c1 EXCEPT !.status = 200], "mw_finally"))
        ELSE Out(W, Goto(c1, "mw_finally"))

\* lines 86-88: the finally clause, then the response or the exception
mw_finally(W, c) ==
    LET c1 == [c EXCEPT !.ctx = "None"]
    IN  IF c.handler = "returns"
        THEN Out(W, Return(c1))
        ELSE Out(W, Raise(c1, "HandlerError"))

(***************************************************************************)
(* The HTTP route of request-link (auth/api.py): what the caller receives  *)
(* for a finished call.                                                    *)
(***************************************************************************)
request_magic_link_response(c) ==
    IF c.outcome = "RateLimitedError"
    THEN [status |-> 429, retry_after_header |-> TRUE, retry_after |-> c.retry,
          sent |-> FALSE, needs_signup |-> FALSE]
    ELSE IF c.outcome = "returned"
    THEN [status |-> 200, retry_after_header |-> FALSE, retry_after |-> 0,
          sent |-> c.sent, needs_signup |-> c.needs_signup]
    ELSE [status |-> 500, retry_after_header |-> FALSE, retry_after |-> 0,
          sent |-> FALSE, needs_signup |-> FALSE]

(***************************************************************************)
(* One step of a call, and a call run to its end.                          *)
(***************************************************************************)
Access(W, c) ==
    CASE c.pc = "rq_check_enumeration" -> rq_check_enumeration(W, c)
      [] c.pc = "rq_enumeration_ttl" -> rq_enumeration_ttl(W, c)
      [] c.pc = "rq_lookup" -> rq_lookup(W, c)
      [] c.pc = "rq_enumeration_incr" -> rq_enumeration_incr(W, c)
      [] c.pc = "rq_enumeration_expire" -> rq_enumeration_expire(W, c)
      [] c.pc = "rq_log_not_found" -> rq_log_not_found(W, c)
      [] c.pc = "rq_rate_incr" -> rq_rate_incr(W, c)
      [] c.pc = "rq_rate_expire" -> rq_rate_expire(W, c)
      [] c.pc = "rq_rate_ttl" -> rq_rate_ttl(W, c)
      [] c.pc = "rq_store" -> rq_store(W, c)
      [] c.pc = "rq_log_requested" -> rq_log_requested(W, c)
      [] c.pc = "rq_send" -> rq_send(W, c)
      [] c.pc = "rq_log_sent" -> rq_log_sent(W, c)
      [] c.pc = "v_lookup" -> v_lookup(W, c)
      [] c.pc = "v_user" -> v_user(W, c)
      [] c.pc = "v_mark" -> v_mark(W, c)
      [] c.pc = "v_session" -> v_session(W, c)
      [] c.pc = "v_last_login" -> v_last_login(W, c)
      [] c.pc = "v_reset_rate" -> v_reset_rate(W, c)
      [] c.pc = "v_reset_enumeration" -> v_reset_enumeration(W, c)
      [] c.pc = "v_log" -> v_log(W, c)
      [] c.pc = "v_refresh" -> v_refresh(W, c)
      [] c.pc = "sc_create" -> sc_create(W, c)
      [] c.pc = "sv_get" -> sv_get(W, c)
      [] c.pc = "sv_check" -> sv_check(W, c)
      [] c.pc = "sv_extend" -> sv_extend(W, c)
      [] c.pc = "rv_delete" -> rv_delete(W, c)
      [] c.pc = "ra_get" -> ra_get(W, c)
      [] c.pc = "ct_delete" -> ct_delete(W, c)
      [] c.pc = "sv_clock" -> sv_clock(W, c)
      [] c.pc = "mw_dispatch" -> mw_dispatch(W, c)
      [] c.pc = "mw_public" -> mw_public(W, c)
      [] c.pc = "mw_validate" -> mw_validate(W, c)
      [] c.pc = "mw_set" -> mw_set(W, c)
      [] c.pc = "mw_handler" -> mw_handler(W, c)
      [] c.pc = "mw_finally" -> mw_finally(W, c)
      [] c.pc = "lo_route" -> lo_route(W, c)
      [] c.pc = "lo_try" -> lo_try(W, c)
      [] c.pc = "lo_revoke" -> lo_revoke(W, c)
      [] c.pc = "lo_log" -> lo_log(W, c)
      [] c.pc = "lo_clear" -> lo_clear(W, c)

\* The route GET /auth/verify (auth/api.py) with the text of the exception
\* as the message of the answer
verify_magic_link_response_echo(c) ==
    IF c.outcome = "returned"
    THEN [status |-> 200, code |-> "", message |-> "", cookie |-> str(c.session.token)]
    ELSE IF c.outcome = "InvalidTokenError"
    THEN [status |-> 401, code |-> "INVALID_TOKEN", message |-> c.message, cookie |-> None]
    ELSE IF c.outcome = "UserInactiveError"
    THEN [status |-> 403, code |-> "NOT_AUTHENTICATED", message |-> c.message, cookie |-> None]
    ELSE [status |-> 500, code |-> "", message |-> "", cookie |-> None]

\* The route GET /auth/verify (auth/api.py, lines 88-126): what the caller
\* receives for a finished call of verify_magic_link.
verify_magic_link_response(c) ==
    IF c.outcome = "returned"
    THEN [status |-> 200, code |-> "", message |-> "", cookie |-> str(c.session.token)]
    ELSE IF c.outcome = "InvalidTokenError"
    THEN [status |-> 401, code |-> "INVALID_TOKEN",
          message |-> "Invalid or expired token", cookie |-> None]
    ELSE IF c.outcome = "UserInactiveError"
    THEN [status |-> 403, code |-> "NOT_AUTHENTICATED",
          message |-> "Account is deactivated", cookie |-> None]
    ELSE [status |-> 500, code |-> "", message |-> "", cookie |-> None]

\* AuthMiddleware.dispatch after its call of validate_session: the request
\* goes on to the route with the user of the session, is answered 401 for
\* SessionExpired, or ends with the exception that nothing catches.
dispatch(c) ==
    IF c.outcome = "returned"
    THEN [status |-> 200, authenticated |-> TRUE, user_id |-> c.session.user_id]
    ELSE IF c.outcome = "SessionExpiredError"
    THEN [status |-> 401, authenticated |-> FALSE, user_id |-> "None"]
    ELSE [status |-> 500, authenticated |-> FALSE, user_id |-> "None"]

logout_response(c) ==
    IF c.outcome = "returned"
    THEN [status |-> 200, cookie_cleared |-> TRUE]
    ELSE [status |-> 500, cookie_cleared |-> FALSE]

\* A step on which a failing store call goes unnoticed
step_ignores_failure(W, c) == Access(W, c)

\* The store call of the step fails when the call's fault names the step;
\* no handler catches the failure, so it ends the call.
Step(W, c) ==
    IF c.fault = c.pc
    THEN Out(W, Fail(c, "StoreError"))
    ELSE Access(W, c)

Run(W, c) ==
    IF c.pc = "done" THEN Out(W, c)
    ELSE LET r == Step(W, c) IN Run(r.w, r.c)

(***************************************************************************)
(* The state machine.                                                      *)
(***************************************************************************)
Empty == [k \in {} |-> 0]

World ==
    [now |-> now, users |-> users, tokens |-> tokens, kv |-> kv,
     nextTok |-> nextTok, nextSess |-> nextSess,
     attempts |-> rate_limit_attempts]

Emails == {Strip(Lower(e)) : e \in RawEmails}

Idle(w) == calls[w].pc = "done"

\* What the model can hold: the generated tokens and the counters stay
\* within the bounds.
Bounded(W) ==
    /\ W.nextTok <= MaxTokens
    /\ W.nextSess <= MaxSessions
    /\ \A e \in Emails :
           Has(W.kv, RateKey(e)) => W.kv[RateKey(e)].val <= W.attempts + ExtraAttempts
    /\ \A ip \in IPs :
           Has(W.kv, EnumerationKey(ip))
               => W.kv[EnumerationKey(ip)].val <= ENUMERATION_LIMIT + ExtraAttempts

StartCall(w, op, label) ==
    [IdleCall EXCEPT !.op = op, !.pc = label, !.flip = ~calls[w].flip]

\* A finished call keeps its arguments and its outcome, not its locals.
Finished(c) ==
    IF c.pc = "done"
    THEN [c EXCEPT !.raw = NoEmail, !.mt = NoToken, !.user = NoUser, !.count = 0,
                   !.clock = 0,
                   !.session = IF c.outcome = "returned" /\ c.op \notin {"logout", "http"}
                               THEN c.session ELSE NoSession]
    ELSE c

Reached(c) == c.op = "request" /\ c.user.found /\ c.count > 0

\* The history kept for the properties: it follows the calls that finish
\* and forgets a counter's calls when the counter's key is gone.
History(W, c) ==
    LET fin == c.pc = "done"
        ok == fin /\ c.outcome = "returned"
    IN  /\ wins' = IF ok /\ c.op = "verify"
                   THEN [wins EXCEPT ![c.tok] = @ + 1] ELSE wins
        /\ revoked' = IF fin /\ c.op = "revoke"
                      THEN revoked \cup ({c.tok} \cap 1..W.nextSess)
                      ELSE revoked
        /\ issued' = IF ok /\ c.op \in {"create", "validate", "verify"}
                     THEN [issued EXCEPT ![c.session.token] = c.session]
                     ELSE issued
        /\ rlCalls' = [e \in Emails |->
                        IF ~Has(W.kv, RateKey(e)) THEN 0
                        ELSE IF fin /\ Reached(c) /\ c.email = e
                        THEN rlCalls[e] + 1
                        ELSE rlCalls[e]]
        /\ rlRetry' = [e \in Emails |->
                        IF ~Has(W.kv, RateKey(e)) THEN 0
                        ELSE IF fin /\ Reached(c) /\ c.email = e
                                /\ c.outcome = "RateLimitedError"
                        THEN c.retry
                        ELSE rlRetry[e]]
        /\ enSignups' = [ip \in IPs |->
                        IF ~Has(W.kv, EnumerationKey(ip)) THEN 0
                        ELSE IF ok /\ c.op = "request" /\ c.needs_signup /\ c.ip = ip
                        THEN enSignups[ip] + 1
                        ELSE enSignups[ip]]

Commit(w, r) ==
    /\ Bounded(r.w)
    /\ users' = r.w.users
    /\ tokens' = r.w.tokens
    /\ kv' = r.w.kv
    /\ nextTok' = r.w.nextTok
    /\ nextSess' = r.w.nextSess
    /\ calls' = [calls EXCEPT ![w] = Finished(r.c)]
    /\ History(r.w, r.c)
    /\ UNCHANGED <<now, rate_limit_attempts, seclog>>

\* A whole call as one action.
Call(w, c) == Idle(w) /\ Commit(w, Run(World, c))

RequestArgs(c, raw, ip, gw) == [c EXCEPT !.raw = raw, !.ip = ip, !.gw = gw]
VerifyArgs(c, t, ip) == [c EXCEPT !.tok = t, !.ip = ip]

KnownEmail == [local |-> "a", upper |-> FALSE, padded |-> FALSE]
UnknownEmail == [local |-> "u", upper |-> FALSE, padded |-> FALSE]

RequestMagicLink(w) ==
    \E raw \in RawEmails, gw \in {"ok", "fail"} :
        Call(w, RequestArgs(StartCall(w, "request", "rq_check_enumeration"), raw, "ip1", gw))

\* A request of the registered user that the gateway accepts.
RequestOwnLink(w) ==
    Call(w, RequestArgs(StartCall(w, "request", "rq_check_enumeration"),
                        KnownEmail, "ip1", "ok"))

\* AuthDatabase.store_magic_link_token called on its own: a row for a new
\* token of a user, unused and valid for the configured time from now.
StoreMagicLinkToken ==
    /\ \A w \in workers : Idle(w)
    /\ nextTok < MaxTokens
    /\ \E u \in DOMAIN users :
           LET t == nextTok + 1
               row == [user_id |-> u, email |-> users[u].email,
                       created_at |-> now, expires_at |-> now + MagicLinkExpiry,
                       used |-> FALSE, used_at |-> NoExpiry]
           IN  /\ tokens' = store_magic_link_token(World, t, row).tokens
               /\ nextTok' = t
    /\ UNCHANGED <<now, users, kv, nextSess, rate_limit_attempts,
                   calls, wins, revoked, issued, rlCalls, rlRetry, enSignups, seclog>>

\* A caller presents a token that was generated, or (0) a string that never was.
VerifyMagicLink(w) ==
    \E t \in 0..nextTok :
        Call(w, VerifyArgs(StartCall(w, "verify", "v_lookup"), t, "ip1"))

CreateSession(w) ==
    \E u \in UserIds :
        Call(w, [StartCall(w, "create", "sc_create") EXCEPT !.user = get_user_by_id(World, u)])

ValidateSession(w) ==
    \E s \in 0..nextSess :
        Call(w, [StartCall(w, "validate", "sv_get") EXCEPT !.tok = s])

RevokeSession(w) ==
    \E s \in 0..nextSess :
        Call(w, [StartCall(w, "revoke", "rv_delete") EXCEPT !.tok = s])

\* AuthDatabase.deactivate_user / activate_user
SetActive(u, flag) ==
    /\ \A w \in workers : Idle(w)
    /\ users[u].is_active # flag
    /\ users' = [users EXCEPT ![u].is_active = flag]
    /\ UNCHANGED <<now, tokens, kv, nextTok, nextSess, rate_limit_attempts,
                   calls, wins, revoked, issued, rlCalls, rlRetry, enSignups, seclog>>

DeactivateUser == \E u \in DOMAIN users : SetActive(u, FALSE)
ActivateUser == \E u \in DOMAIN users : SetActive(u, TRUE)

\* The clock advances; the TTL store drops the keys whose time has come.
Tick ==
    /\ now < MaxTime
    /\ now' = now + 1
    /\ kv' = Purge(kv, now + 1)
    /\ rlCalls' = [e \in Emails |-> IF Has(kv', RateKey(e)) THEN rlCalls[e] ELSE 0]
    /\ rlRetry' = [e \in Emails |-> IF Has(kv', RateKey(e)) THEN rlRetry[e] ELSE 0]
    /\ enSignups' = [ip \in IPs |-> IF Has(kv', EnumerationKey(ip)) THEN enSignups[ip] ELSE 0]
    /\ UNCHANGED <<users, tokens, nextTok, nextSess, rate_limit_attempts,
                   calls, wins, revoked, issued, seclog>>

\* No insert under way, no rotation under way.
NoPending == [found |-> FALSE]
NoRotation == [pc |-> "idle", cutoff |-> 0, events |-> {}]

InitStores ==
    /\ now = 0
    /\ users = [u \in UserIds |->
                   [email |-> KnownEmail, is_active |-> TRUE,
                    last_login_at |-> NoExpiry]]
    /\ tokens = Empty
    /\ kv = Empty
    /\ nextTok = 0
    /\ nextSess = 0
    /\ rate_limit_attempts \in 1..MaxAttempts
    /\ wins = [t \in 0..MaxTokens |-> 0]
    /\ revoked = {}
    /\ issued = [s \in 1..MaxSessions |-> NoSession]
    /\ rlCalls = [e \in Emails |-> 0]
    /\ rlRetry = [e \in Emails |-> 0]
    /\ enSignups = [ip \in IPs |-> 0]
    /\ seclog = [events |-> {}, archive |-> {}, nextId |-> 0,
                 pending |-> NoPending, rotation |-> NoRotation]

\* Requests for links from one client address, one call at a time.
Init ==
    /\ InitStores
    /\ calls = [w \in {1} |-> IdleCall]

Next ==
    \/ \E w \in workers : RequestMagicLink(w)
    \/ Tick

Spec == Init /\ [][Next]_vars

\* Stored tokens of the registered user and their verification, one call at
\* a time; a request leaves the counter that a verification deletes.
NextVerify ==
    \/ StoreMagicLinkToken
    \/ \E w \in workers : ~Has(kv, RateKey(KnownEmail)) /\ RequestOwnLink(w)
    \/ \E w \in workers : VerifyMagicLink(w)
    \/ DeactivateUser
    \/ ActivateUser
    \/ Tick

\* Verification does not read the limiter's threshold: one value is enough.
InitVerify == Init /\ rate_limit_attempts = MaxAttempts

SpecVerify == InitVerify /\ [][NextVerify]_vars

\* The session manager on its own, one call at a time.
NextSession ==
    \/ \E w \in workers : CreateSession(w)
    \/ \E w \in workers : ValidateSession(w)
    \/ \E w \in workers : RevokeSession(w)
    \/ Tick

\* The session manager reads no limiter setting: one value of it is enough.
InitSession == Init /\ rate_limit_attempts = MaxAttempts

SpecSession == InitSession /\ [][NextSession]_vars

\* Requests for links and verifications of stored tokens, from one client
\* address, one call at a time.
NextLogin ==
    \/ StoreMagicLinkToken
    \/ \E w \in workers : RequestMagicLink(w)
    \/ \E w \in workers : VerifyMagicLink(w)
    \/ Tick

SpecLogin == Init /\ [][NextLogin]_vars

\* Verifications that are refused, while both counters of the client exist:
\* a request of the registered user leaves the rate-limit counter, a
\* request for an unknown email the enumeration counter.
RequestUnknown(w) ==
    Call(w, RequestArgs(StartCall(w, "request", "rq_check_enumeration"),
                        UnknownEmail, "ip1", "ok"))

NextRefuse ==
    \/ StoreMagicLinkToken
    \/ \E w \in workers : ~Has(kv, RateKey(KnownEmail)) /\ RequestOwnLink(w)
    \/ \E w \in workers : ~Has(kv, EnumerationKey("ip1")) /\ RequestUnknown(w)
    \/ \E w \in workers : VerifyMagicLink(w)
    \/ DeactivateUser
    \/ ActivateUser
    \/ Tick

SpecRefuse == InitVerify /\ [][NextRefuse]_vars

\* Sessions and stored tokens of a user who is deactivated at some time.
NextDeactivate ==
    \/ nextTok = 0 /\ StoreMagicLinkToken
    \/ nextSess = 0 /\ CreateSession(1)
    \/ \E w \in workers : ValidateSession(w)
    \/ \E w \in workers : VerifyMagicLink(w)
    \/ DeactivateUser
    \/ Tick

SpecDeactivate == InitVerify /\ [][NextDeactivate]_vars

\* Verifications of stored tokens after requests that have left the
\* counters of the user's email and of the origin in the TTL store.
NextOrder ==
    \/ StoreMagicLinkToken
    \/ \E w \in workers : ~Has(kv, RateKey(KnownEmail)) /\ RequestOwnLink(w)
    \/ \E w \in workers : ~Has(kv, EnumerationKey("ip1")) /\ RequestUnknown(w)
    \/ \E w \in workers : VerifyMagicLink(w)
    \/ Tick

SpecOrder == InitVerify /\ [][NextOrder]_vars

ValidateFaults == {"none", "sv_get", "sv_extend"}

\* A request to a public or a protected path, with the cookie of a session
\* token that was generated or of a string that never was (0), or with no
\* cookie; the handler returns or raises; the TTL store may fail.
HttpRequest(w) ==
    \E path \in {<<"/health">>, <<"/api/customers">>}, s \in 0..nextSess, cookie \in BOOLEAN,
       handler \in {"returns", "raises"}, f \in ValidateFaults :
        /\ is_public_path(path) => ~cookie
        /\ ~cookie => s = 0 /\ f = "none"
        /\ f # "none" => handler = "returns"
        /\ Call(w, [StartCall(w, "http", "mw_dispatch")
                       EXCEPT !.path = path, !.tok = s, !.cookie = cookie,
                              !.handler = handler, !.fault = f])

\* The paths of requests: the listed ones, paths under and beside them,
\* and paths of the application.
Paths ==
    {<<PUBLIC_PATHS[i]>> : i \in DOMAIN PUBLIC_PATHS}
        \cup {<<"/assets/", "style.css">>, <<"/health", "z">>, <<"/docs", "-internal">>,
               <<"/auth/verify", "/admin">>, <<"/heal">>, <<"/">>, <<"/api/customers">>,
               <<"/api", "/health">>}

\* A request to any of the paths, with or without a cookie.
HttpRequestTo(w) ==
    \E path \in Paths, s \in 0..nextSess, cookie \in BOOLEAN :
        /\ ~cookie => s = 0
        /\ Call(w, [StartCall(w, "http", "mw_dispatch")
                       EXCEPT !.path = path, !.tok = s, !.cookie = cookie])

NextPaths ==
    \/ nextSess = 0 /\ CreateSession(1)
    \/ \E w \in workers : HttpRequestTo(w)
    \/ Tick

SpecPaths == InitSession /\ [][NextPaths]_vars

NextMiddleware ==
    \/ \E w \in workers : CreateSession(w)
    \/ \E w \in workers : HttpRequest(w)
    \/ Tick

SpecMiddleware == InitSession /\ [][NextMiddleware]_vars

\* The periodic sweep of the token table beside the verifications.
CleanupExpiredTokens(w) == Call(w, StartCall(w, "cleanup", "ct_delete"))

NextCleanup ==
    \/ StoreMagicLinkToken
    \/ \E w \in workers : VerifyMagicLink(w)
    \/ \E w \in workers : CleanupExpiredTokens(w)
    \/ Tick

SpecCleanup == InitVerify /\ [][NextCleanup]_vars

\* The limiter read beside the requests that move its counters.
GetRemainingAttempts(w) ==
    \E raw \in RawEmails :
        Call(w, [StartCall(w, "remaining", "ra_get") EXCEPT !.email = raw])

NextLimiter ==
    \/ \E w \in workers : RequestMagicLink(w)
    \/ \E w \in workers : GetRemainingAttempts(w)
    \/ Tick

SpecLimiter == Init /\ [][NextLimiter]_vars

\* POST /auth/logout with the cookie of a session token that was generated,
\* of a string that never was (0), or with no cookie; the stores may fail
\* while the handler looks the session and its user up.
LogoutFaults == {"none", "sv_get", "lo_user"}

Logout(w) ==
    \E s \in 0..nextSess, cookie \in BOOLEAN, f \in LogoutFaults :
        /\ ~cookie => s = 0 /\ f = "none"
        /\ Call(w, [StartCall(w, "logout", "lo_route")
                       EXCEPT !.tok = s, !.cookie = cookie, !.fault = f])

NextLogout ==
    \/ \E w \in workers : CreateSession(w)
    \/ \E w \in workers : Logout(w)
    \/ Tick

SpecLogout == InitSession /\ [][NextLogout]_vars

\* Calls during which one thing fails: the store call of one step of the
\* handler, or the insert of an audit event.  The clock stands still.
RequestFaults ==
    {"none", "rq_check_enumeration", "rq_lookup", "rq_enumeration_incr", "rq_rate_incr"}
VerifyFaults ==
    {"none", "v_lookup", "v_user", "v_mark", "v_session", "v_last_login",
     "v_reset_rate", "v_reset_enumeration", "v_refresh"}

Faulty(c, fault, audit) == [c EXCEPT !.fault = fault, !.audit = audit]
OneFailure(fault, audit) == fault = "none" \/ audit = "ok"

RequestFaulty(w) ==
    \E raw \in {KnownEmail, UnknownEmail}, f \in RequestFaults, a \in {"ok", "fail"} :
        /\ ~Has(kv, RateKey(raw))
        /\ ~Has(kv, EnumerationKey("ip1"))
        /\ OneFailure(f, a)
        /\ Call(w, Faulty(RequestArgs(StartCall(w, "request", "rq_check_enumeration"),
                                      raw, "ip1", "ok"), f, a))

VerifyFaulty(w) ==
    \E t \in 0..nextTok, f \in VerifyFaults, a \in {"ok", "fail"} :
        /\ OneFailure(f, a)
        /\ Call(w, Faulty(VerifyArgs(StartCall(w, "verify", "v_lookup"), t, "ip1"), f, a))

ValidateFaulty(w) ==
    \E s \in 0..nextSess, f \in ValidateFaults :
        Call(w, Faulty([StartCall(w, "validate", "sv_get") EXCEPT !.tok = s], f, "ok"))

NextFault ==
    \/ StoreMagicLinkToken
    \/ \E w \in workers : RequestFaulty(w)
    \/ \E w \in workers : VerifyFaulty(w)
    \/ \E w \in workers : ValidateFaulty(w)

SpecFault == InitVerify /\ [][NextFault]_vars

(***************************************************************************)
(* Concurrent verification: every worker runs its call one store access    *)
(* at a time, and the accesses of different workers interleave.            *)
(***************************************************************************)
BeginVerify(w) ==
    /\ Idle(w)
    /\ calls[w].op # "verify"
    /\ \E t \in 0..nextTok :
           calls' = [calls EXCEPT ![w] = VerifyArgs(StartCall(w, "verify", "v_lookup"), t, "ip1")]
    /\ UNCHANGED <<now, users, tokens, kv, nextTok, nextSess, rate_limit_attempts,
                   wins, revoked, issued, rlCalls, rlRetry, enSignups, seclog>>

StepCall(w) ==
    /\ ~Idle(w)
    /\ Commit(w, Step(World, calls[w]))

\* Two workers; one token is stored and each worker verifies once.
InitRace ==
    /\ InitStores
    /\ calls = [w \in {1, 2} |-> IdleCall]

NextRace ==
    \/ tokens = Empty /\ StoreMagicLinkToken
    \/ \E w \in workers : BeginVerify(w)
    \/ \E w \in workers : StepCall(w)
    \/ Tick

SpecRace == InitRace /\ [][NextRace]_vars

\* AuthDatabase.delete_user: the row of the user goes, and with it the
\* user's magic-link tokens (the foreign key cascades).
DeleteUser ==
    \E u \in DOMAIN users :
        /\ users' = [v \in DOMAIN users \ {u} |-> users[v]]
        /\ tokens' = [t \in {t \in DOMAIN tokens : tokens[t].user_id # u} |-> tokens[t]]
        /\ UNCHANGED <<now, kv, nextTok, nextSess, rate_limit_attempts,
                       calls, wins, revoked, issued, rlCalls, rlRetry, enSignups, seclog>>

\* A verification enters; a worker may verify again and again.
StartVerify(w) ==
    /\ Idle(w)
    /\ \E t \in 0..nextTok :
           calls' = [calls EXCEPT ![w] = VerifyArgs(StartCall(w, "verify", "v_lookup"), t, "ip1")]
    /\ UNCHANGED <<now, users, tokens, kv, nextTok, nextSess, rate_limit_attempts,
                   wins, revoked, issued, rlCalls, rlRetry, enSignups, seclog>>

\* Verifications one store access at a time, beside the administration of
\* the user: the user may be deleted while a call runs.  The clock moves
\* between the calls.
NextRoute ==
    \/ StoreMagicLinkToken
    \/ \E w \in workers : StartVerify(w)
    \/ \E w \in workers : StepCall(w)
    \/ DeactivateUser
    \/ DeleteUser
    \/ (\A w \in workers : Idle(w)) /\ Tick

SpecRoute == InitVerify /\ [][NextRoute]_vars

(***************************************************************************)
(* The audit log (auth/security_logger.py): processes that insert events   *)
(* and a job that rotates the table into an archive file, each statement   *)
(* on its own.  An event is its id and its created_at.                     *)
(***************************************************************************)
authVars == <<users, tokens, kv, nextTok, nextSess, rate_limit_attempts,
              calls, wins, revoked, issued, rlCalls, rlRetry, enSignups>>

\* WHERE created_at < cutoff
OlderThan(events, cutoff) == {e \in events : e.created_at < cutoff}

\* SecurityLogger.log, line 67: the arguments of the insert are evaluated,
\* created_at is the clock of that moment
LogBegin ==
    /\ ~seclog.pending.found
    /\ seclog.nextId < MaxEvents
    /\ seclog' = [seclog EXCEPT !.pending = [found |-> TRUE, created_at |-> now]]
    /\ UNCHANGED <<now, authVars>>

\* SecurityLogger.log, lines 55-69: the insert is executed
LogInsert ==
    /\ seclog.pending.found
    /\ seclog' = [seclog EXCEPT
                     !.events = @ \cup {[id |-> seclog.nextId + 1,
                                         created_at |-> seclog.pending.created_at]},
                     !.nextId = @ + 1,
                     !.pending = NoPending]
    /\ UNCHANGED <<now, authVars>>

\* rotate_logs, line 116
RotateBegin ==
    /\ seclog.rotation.pc = "idle"
    /\ \E older_than_days \in 0..MaxDays :
           seclog' = [seclog EXCEPT !.rotation =
                         [pc |-> "select", cutoff |-> now - older_than_days, events |-> {}]]
    /\ UNCHANGED <<now, authVars>>

\* rotate_logs, lines 119-128: the old events are fetched; none, return 0
RotateSelect ==
    /\ seclog.rotation.pc = "select"
    /\ LET events == OlderThan(seclog.events, seclog.rotation.cutoff)
       IN  seclog' = [seclog EXCEPT !.rotation =
                         IF events = {} THEN NoRotation
                         ELSE [@ EXCEPT !.pc = "write", !.events = events]]
    /\ UNCHANGED <<now, authVars>>

\* rotate_logs, lines 131-144: the fetched events are appended to the file
RotateWrite ==
    /\ seclog.rotation.pc = "write"
    /\ seclog' = [seclog EXCEPT !.archive = @ \cup seclog.rotation.events,
                                !.rotation.pc = "delete"]
    /\ UNCHANGED <<now, authVars>>

\* rotate_logs, lines 147-152: DELETE ... WHERE created_at < cutoff
RotateDelete ==
    /\ seclog.rotation.pc = "delete"
    /\ seclog' = [seclog EXCEPT
                     !.events = @ \ OlderThan(@, seclog.rotation.cutoff),
                     !.rotation = NoRotation]
    /\ UNCHANGED <<now, authVars>>

\* The rotating process dies between two of its statements.
Crash ==
    /\ seclog.rotation.pc # "idle"
    /\ seclog' = [seclog EXCEPT !.rotation = NoRotation]
    /\ UNCHANGED <<now, authVars>>

NextRotate ==
    \/ LogBegin
    \/ LogInsert
    \/ RotateBegin
    \/ RotateSelect
    \/ RotateWrite
    \/ RotateDelete
    \/ Crash
    \/ Tick

SpecRotate == InitVerify /\ [][NextRotate]_vars

\* A client whose requests run one store access at a time, beside a
\* verification from the same address that deletes the client's counters.
BeginRequest(w) ==
    /\ Idle(w)
    /\ \E raw \in {KnownEmail, UnknownEmail} :
           calls' = [calls EXCEPT ![w] =
                        RequestArgs(StartCall(w, "request", "rq_check_enumeration"),
                                    raw, "ip1", "ok")]
    /\ UNCHANGED <<now, users, tokens, kv, nextTok, nextSess, rate_limit_attempts,
                   wins, revoked, issued, rlCalls, rlRetry, enSignups, seclog>>

InitGuard == InitRace /\ rate_limit_attempts = MaxAttempts

NextGuard ==
    \/ tokens = Empty /\ StoreMagicLinkToken
    \/ BeginRequest(1)
    \/ BeginVerify(2)
    \/ \E w \in workers : StepCall(w)

SpecGuard == InitGuard /\ [][NextGuard]_vars

(***************************************************************************)
(* Properties.                                                             *)
(***************************************************************************)
Tokens == 1..MaxTokens
Sessions == 1..MaxSessions

\* The call worker w has made in this step, if it has made one.
Called(w, op) == calls'[w].flip # calls[w].flip /\ calls'[w].op = op

\* C1: of the verifications of one token at most one succeeds and the others
\* fail with InvalidToken, however the store accesses of concurrent calls
\* interleave; so no token is ever verified twice and two finished calls
\* for the same token never both hold a session.
C1_OneVerificationPerToken ==
    /\ \A t \in Tokens : wins[t] <= 1
    /\ \A v, w \in workers :
           (/\ v # w
            /\ calls[v].op = "verify" /\ calls[w].op = "verify"
            /\ calls[v].pc = "done" /\ calls[w].pc = "done"
            /\ calls[v].tok = calls[w].tok
            /\ calls[v].outcome = "returned")
               => calls[w].outcome = "InvalidTokenError" /\ ~calls[w].session.found

\* The token row a verification finds, as the store holds it before the call.
Stored(t) == t \in DOMAIN tokens
Verifiable(t) ==
    /\ Stored(t)
    /\ ~tokens[t].used
    /\ now <= tokens[t].expires_at
    /\ tokens[t].user_id \in DOMAIN users
    /\ users[tokens[t].user_id].is_active

\* C2: the verification of a stored, unused, unexpired token of an active
\* user succeeds and sets used; a used flag never returns to false; a
\* verification of a used token fails with InvalidToken, so no token is
\* verified more than once.
C2_Step ==
    /\ \A t \in DOMAIN tokens :
           tokens[t].used => (t \in DOMAIN tokens' => tokens'[t].used)
    /\ \A t \in DOMAIN wins : wins'[t] <= 1
    /\ \A w \in workers :
           Called(w, "verify") =>
               LET t == calls'[w].tok IN
               /\ Verifiable(t) =>
                      /\ calls'[w].outcome = "returned"
                      /\ calls'[w].session.found
                      /\ tokens'[t].used
                      /\ wins'[t] = 1
               /\ (Stored(t) /\ tokens[t].used) =>
                      /\ calls'[w].outcome = "InvalidTokenError"
                      /\ ~calls'[w].session.found

C2_VerifyOnce == [][C2_Step]_vars

\* A second verification of a token that was verified once has been refused.
C2_Witness ==
    \E w \in workers :
        /\ calls[w].op = "verify"
        /\ calls[w].outcome = "InvalidTokenError"
        /\ calls[w].evs = << <<"magic_link_already_used", "">> >>
        /\ wins[calls[w].tok] = 1
        /\ now <= tokens[calls[w].tok].expires_at

\* C3: the verification of a stored token whose expires_at lies before the
\* current time fails with InvalidToken, used or not, and creates no session.
C3_Step ==
    \A w \in workers :
        Called(w, "verify") =>
            LET t == calls'[w].tok IN
            (Stored(t) /\ tokens[t].expires_at < now) =>
                /\ calls'[w].outcome = "InvalidTokenError"
                /\ ~calls'[w].session.found
                /\ nextSess' = nextSess
                /\ kv' = kv
                /\ tokens' = tokens

C3_ExpiredTokenRefused == [][C3_Step]_vars

\* An unused token of an active user has been refused because it had expired.
C3_Witness ==
    \E w \in workers :
        /\ calls[w].op = "verify"
        /\ calls[w].outcome = "InvalidTokenError"
        /\ calls[w].evs = << <<"magic_link_expired", "">> >>
        /\ ~tokens[calls[w].tok].used
        /\ users[tokens[calls[w].tok].user_id].is_active

\* C4: validate raises SessionExpired for a token that was never created
\* and for a token that was revoked, whatever calls came before.
C4_Step ==
    \A w \in workers :
        Called(w, "validate") =>
            LET s == calls'[w].tok IN
            (s \notin 1..nextSess \/ s \in revoked) =>
                /\ calls'[w].outcome = "SessionExpiredError"
                /\ ~Has(kv', SessionKey(s))

C4_RevokedOrUnknownExpired == [][C4_Step]_vars

\* A session was created, revoked within its lifetime and then refused.
C4_Witness ==
    \E w \in workers :
        /\ calls[w].op = "validate"
        /\ calls[w].tok \in revoked
        /\ calls[w].tok \in Sessions
        /\ calls[w].outcome = "SessionExpiredError"
        /\ issued[calls[w].tok].found
        /\ now < issued[calls[w].tok].expires_at

\* C5 as stated: every validate of a created, unrevoked session that is made
\* later than the call before it succeeds and returns a strictly later
\* expires_at.
C5_Original_Step ==
    \A w \in workers :
        Called(w, "validate") =>
            LET s == calls'[w].tok IN
            (s \in 1..nextSess /\ s \notin revoked /\ now > issued[s].last_activity_at) =>
                /\ calls'[w].outcome = "returned"
                /\ calls'[w].session.expires_at > issued[s].expires_at

C5_Step ==
    \A w \in workers :
        Called(w, "validate") =>
            LET s == calls'[w].tok IN
            (s \in 1..nextSess /\ s \notin revoked /\ now < issued[s].expires_at) =>
                /\ calls'[w].outcome = "returned"
                /\ calls'[w].session.expires_at >= issued[s].expires_at
                /\ now > issued[s].last_activity_at
                       => calls'[w].session.expires_at > issued[s].expires_at

C6_Step ==
    \A w \in workers :
        (Called(w, "validate") /\ calls'[w].outcome = "returned") =>
            LET s == calls'[w].tok
                key == SessionKey(s)
                new == calls'[w].session
            IN  /\ Has(kv, key)
                /\ new.token = s
                /\ new.user_id = kv[key].val.user_id
                /\ new.created_at = parse_iso(kv[key].val.created_at)
                /\ new.expires_at = now + SessionLifetime
                /\ new.last_activity_at = now
                /\ Has(kv', key)
                /\ kv'[key].val = SessionJson(new)
                /\ KvTtl(kv', now, key) = SessionLifetime
                /\ DOMAIN kv' = DOMAIN kv
                /\ \A k \in DOMAIN kv : k # key => kv'[k] = kv[k]

Registered(email) == get_user_by_email(World, email).found
Blocked(ip) ==
    Has(kv, EnumerationKey(ip)) /\ kv[EnumerationKey(ip)].val >= ENUMERATION_LIMIT

\* C7: counted from the appearance of the email's counter, each of the
\* first rate_limit_attempts requests for a registered email invokes the
\* sender for a newly stored token and returns sent unless the gateway
\* fails; every request after them raises RateLimited with a retry-after
\* of at least 1 (answered 429 with a Retry-After header), stores no token
\* and does not invoke the sender.
C7_Step ==
    \A w \in workers :
        Called(w, "request") =>
            LET c == calls'[w]
                e == c.email
                http == request_magic_link_response(c)
            IN  (Registered(e) /\ ~Blocked(c.ip)) =>
                    /\ rlCalls'[e] = rlCalls[e] + 1
                    /\ rlCalls[e] < rate_limit_attempts =>
                           /\ c.outcome # "RateLimitedError"
                           /\ c.invoked
                           /\ nextTok' = nextTok + 1
                           /\ c.stored = nextTok'
                           /\ c.stored \in DOMAIN tokens' /\ ~tokens'[c.stored].used
                           /\ c.gw = "ok" =>
                                  /\ c.outcome = "returned"
                                  /\ c.sent /\ ~c.needs_signup
                                  /\ http.status = 200 /\ http.sent
                    /\ rlCalls[e] >= rate_limit_attempts =>
                           /\ c.outcome = "RateLimitedError"
                           /\ c.retry >= 1
                           /\ http.status = 429
                           /\ http.retry_after_header /\ http.retry_after >= 1
                           /\ ~c.invoked
                           /\ c.stored = 0
                           /\ tokens' = tokens
                           /\ nextTok' = nextTok

C7_LimitAfterThreshold == [][C7_Step]_vars

\* C8: every check of a rate-limit counter leaves its key with the full
\* window as TTL, also when the counter is over the limit; a refused request
\* carries a retry-after that is not smaller than that of the refusal before
\* it, and the key's TTL after a refusal is not smaller than before it.
C8_Step ==
    \A w \in workers :
        Called(w, "request") =>
            LET c == calls'[w]
                e == c.email
                key == RateKey(e)
            IN  (Registered(e) /\ ~Blocked(c.ip)) =>
                    /\ KvTtl(kv', now, key) = RateLimitWindow
                    /\ c.outcome = "RateLimitedError" =>
                           /\ c.retry >= rlRetry[e]
                           /\ KvTtl(kv', now, key) >= KvTtl(kv, now, key)

C8_LockoutNeverShortens == [][C8_Step]_vars

\* C9: once ENUMERATION_LIMIT requests from an origin have been answered
\* needs_signup since the origin's counter appeared, the next request from
\* that origin raises RateLimited, whatever email it names; never more than
\* ENUMERATION_LIMIT such answers are given during one life of the counter.
C9_Step ==
    /\ \A ip \in IPs : enSignups'[ip] <= ENUMERATION_LIMIT
    /\ \A w \in workers :
           Called(w, "request") =>
               LET c == calls'[w] IN
               /\ enSignups[c.ip] >= ENUMERATION_LIMIT =>
                      /\ c.outcome = "RateLimitedError"
                      /\ c.retry >= 1
               /\ (enSignups[c.ip] < ENUMERATION_LIMIT /\ ~Registered(c.email)) =>
                      /\ c.outcome = "returned" /\ c.needs_signup
                      /\ enSignups'[c.ip] = enSignups[c.ip] + 1

C9_EnumerationLockout == [][C9_Step]_vars

\* C10: a request for an email without a user record never invokes the
\* sender and always returns sent = false, needs_signup = true.
C10_Step ==
    \A w \in workers :
        Called(w, "request") =>
            LET c == calls'[w] IN
            ~Registered(c.email) =>
                /\ ~c.invoked
                /\ c.outcome = "returned"
                /\ ~c.sent /\ c.needs_signup

C10_UnknownEmailNeverSent == [][C10_Step]_vars

\* C11: a successful verification for a user from an origin leaves neither
\* the user's rate-limit counter nor the origin's enumeration counter; so,
\* once a verification has succeeded, each of the first rate_limit_attempts
\* requests for the user since the counter was deleted sends a link (the
\* gateway accepting it), and each of the first ENUMERATION_LIMIT requests
\* for unknown emails from the origin returns needs_signup.
C11_Step ==
    \A w \in workers :
        LET c == calls'[w] IN
        /\ (Called(w, "verify") /\ c.outcome = "returned") =>
               /\ ~Has(kv', RateKey(tokens[c.tok].email))
               /\ ~Has(kv', EnumerationKey(c.ip))
        /\ (Called(w, "request") /\ \E t \in Tokens : wins[t] >= 1) =>
               /\ (Registered(c.email) /\ ~Blocked(c.ip) /\ c.gw = "ok"
                      /\ rlCalls[c.email] < rate_limit_attempts) =>
                      c.outcome = "returned" /\ c.sent
               /\ (~Registered(c.email) /\ enSignups[c.ip] < ENUMERATION_LIMIT) =>
                      c.outcome = "returned" /\ c.needs_signup

C11_ResetRestoresAttempts == [][C11_Step]_vars

\* C12: when the gateway refuses the mail of a request that is within the
\* limit, the gateway's error reaches the caller; the token of the request
\* stays stored, unused and verifiable until it expires, the rate-limit
\* counter keeps its increment, and the audit log holds magic_link_requested
\* and no magic_link_sent for the request.
C12_Step ==
    \A w \in workers :
        Called(w, "request") =>
            LET c == calls'[w]
                key == RateKey(c.email)
                before == IF Has(kv, key) THEN kv[key].val ELSE 0
            IN  (Registered(c.email) /\ ~Blocked(c.ip) /\ c.gw = "fail"
                    /\ rlCalls[c.email] < rate_limit_attempts) =>
                    /\ c.outcome = "EmailGatewayError"
                    /\ c.stored \in DOMAIN tokens'
                    /\ ~tokens'[c.stored].used
                    /\ tokens'[c.stored].expires_at > now
                    /\ Has(kv', key) /\ kv'[key].val = before + 1
                    /\ c.evs = <<(<<"magic_link_requested", "">>)>>

C12_GatewayFailurePropagates == [][C12_Step]_vars

\* C13: a failing insert into the audit log does not abort the call that
\* logs: no request and no verification ends with the error of the insert,
\* and the verification of a verifiable token still returns its session.
C13_Step ==
    \A w \in workers :
        LET c == calls'[w] IN
        (c.audit = "fail" /\ c.fault = "none") =>
            /\ (Called(w, "request") \/ Called(w, "verify")) =>
                   c.outcome # "DatabaseError"
            /\ (Called(w, "verify") /\ Verifiable(c.tok)) =>
                   c.outcome = "returned" /\ c.session.found

C13_AuditFailureNeverAborts == [][C13_Step]_vars

\* The store calls on the way of a request that no counter blocks.
RequestPath(email) ==
    IF Registered(email)
    THEN {"rq_check_enumeration", "rq_lookup", "rq_rate_incr"}
    ELSE {"rq_check_enumeration", "rq_lookup", "rq_enumeration_incr"}

\* C15: a store call that fails during a request, a verification or a
\* validation ends the call with the error: the sender is not invoked and
\* nothing is reported sent, no session is returned, and the middleware
\* does not pass the request on as authenticated.  The store calls on the
\* way of a call are all subject to this: a failing one is never skipped.
C15_Step ==
    \A w \in workers :
        LET c == calls'[w]
            made == Called(w, "request") \/ Called(w, "verify") \/ Called(w, "validate")
        IN  /\ (made /\ c.failed) =>
                   /\ c.outcome \in {"StoreError", "DatabaseError"}
                   /\ ~c.invoked /\ ~c.sent /\ ~c.needs_signup
                   /\ ~c.session.found
                   /\ ~dispatch(c).authenticated /\ dispatch(c).status = 500
            /\ (Called(w, "request") /\ c.fault \in RequestPath(c.email)) =>
                   c.failed /\ c.outcome = "StoreError"
            /\ (Called(w, "verify") /\ Verifiable(c.tok) /\ c.fault # "none") =>
                   c.failed /\ c.outcome = "StoreError"
            /\ (Called(w, "validate") /\ Has(kv, SessionKey(c.tok)) /\ c.fault # "none") =>
                   c.failed /\ c.outcome = "StoreError"

C15_StoreFailureFailsClosed == [][C15_Step]_vars

\* A verification has been ended by the store after it had marked its token
\* used: no session was returned.
C15_Witness ==
    \E w \in workers :
        /\ calls[w].op = "verify"
        /\ calls[w].fault = "v_session"
        /\ calls[w].outcome = "StoreError"
        /\ tokens[calls[w].tok].used
        /\ ~calls[w].session.found
        /\ ~dispatch(calls[w]).authenticated

\* C16: a verification that ends in InvalidToken or UserInactive changes
\* no token row (the used flag stays), no user row (last_login_at stays),
\* no session and neither counter; it writes at most one audit event.
C16_Step ==
    \A w \in workers :
        LET c == calls'[w] IN
        (Called(w, "verify") /\ c.outcome \in {"InvalidTokenError", "UserInactiveError"}) =>
            /\ tokens' = tokens
            /\ users' = users
            /\ kv' = kv
            /\ nextSess' = nextSess
            /\ Len(c.evs) <= 1

C16_RefusedVerifyWritesNothing == [][C16_Step]_vars

\* The verification of an unused token of a deactivated user has been
\* refused while both counters and a session existed: the token is unused.
C16_Witness ==
    \E w \in workers :
        /\ calls[w].op = "verify"
        /\ calls[w].outcome = "UserInactiveError"
        /\ calls[w].evs = <<(<<"magic_link_failed", "user_inactive">>)>>
        /\ ~tokens[calls[w].tok].used
        /\ Has(kv, RateKey(KnownEmail))
        /\ Has(kv, EnumerationKey("ip1"))
        /\ \E s \in Sessions : Has(kv, SessionKey(s))

\* C17: every RateLimited error of a request carries a retry-after of at
\* least 1 and is answered 429 with that value in the Retry-After header,
\* also when the TTL query finds the key without an expiry (-1) or finds
\* no key because it was deleted after the count was read (-2).
C17_RetryAfterAtLeastOne ==
    \A w \in workers :
        (calls[w].op = "request" /\ calls[w].outcome = "RateLimitedError") =>
            LET http == request_magic_link_response(calls[w]) IN
            /\ calls[w].retry >= 1
            /\ calls[w].ttl \in {NoKey, NoExpiry} => calls[w].retry = 1
            /\ http.status = 429
            /\ http.retry_after_header /\ http.retry_after >= 1

\* A request was refused by the enumeration guard whose TTL query found the
\* key gone: the verification had deleted it after the guard read the count.
C17_Witness ==
    \E w \in workers :
        /\ calls[w].op = "request"
        /\ calls[w].outcome = "RateLimitedError"
        /\ calls[w].ttl = NoKey
        /\ \E v \in workers : calls[v].op = "verify" /\ wins[calls[v].tok] = 1

\* C18: revoke_session returns without error whether or not the token has
\* a session; afterwards the token's key is absent and every other key is
\* as it was, so revoking an absent session changes nothing; revoking a
\* second time changes nothing more.
C18_Step ==
    \A w \in workers :
        Called(w, "revoke") =>
            LET c == calls'[w]
                key == SessionKey(c.tok)
                again == Run([World EXCEPT !.kv = kv'],
                             [IdleCall EXCEPT !.op = "revoke", !.pc = "rv_delete",
                                              !.tok = c.tok])
            IN  /\ c.outcome = "returned"
                /\ ~Has(kv', key)
                /\ DOMAIN kv' = DOMAIN kv \ {key}
                /\ \A k \in DOMAIN kv' : kv'[k] = kv[k]
                /\ ~Has(kv, key) => kv' = kv
                /\ again.c.outcome = "returned" /\ again.w.kv = kv'

C18_RevokeIdempotent == [][C18_Step]_vars

\* A session that had been revoked already has been revoked again while
\* another session lives.
C18_Witness ==
    \E w \in workers :
        /\ calls[w].op = "revoke"
        /\ calls[w].outcome = "returned"
        /\ calls[w].tok \in revoked
        /\ ~Has(kv, SessionKey(calls[w].tok))
        /\ \E s \in Sessions : s # calls[w].tok /\ Has(kv, SessionKey(s))

\* C19: get_remaining_attempts returns the threshold less the count of the
\* email's counter, and 0 when the count is over the threshold; it returns
\* the full threshold when there is no counter; it changes neither the
\* counter nor its TTL, nor anything else.
C19_Step ==
    \A w \in workers :
        Called(w, "remaining") =>
            LET c == calls'[w]
                key == RateKey(c.email)
            IN  /\ c.outcome = "returned"
                /\ ~Has(kv, key) => c.remaining = rate_limit_attempts
                /\ Has(kv, key) =>
                       /\ c.remaining = Max(rate_limit_attempts - kv[key].val, 0)
                       /\ c.remaining >= 0
                       /\ kv[key].val <= rate_limit_attempts =>
                              c.remaining + kv[key].val = rate_limit_attempts
                /\ kv' = kv
                /\ UNCHANGED <<users, tokens, nextTok, nextSess, now>>

C19_RemainingAttempts == [][C19_Step]_vars

\* The remaining attempts of an email whose counter is over the threshold
\* have been read as 0.
C19_Witness ==
    \E w \in workers :
        /\ calls[w].op = "remaining"
        /\ calls[w].outcome = "returned"
        /\ calls[w].remaining = 0
        /\ Has(kv, RateKey(calls[w].email))
        /\ kv[RateKey(calls[w].email)].val > rate_limit_attempts

\* C20: logout completes without error for every token, be it of a live
\* session, of one that has expired or was revoked, or a string that never
\* was a token, and also when the look-up of the session or of its user
\* fails; afterwards the token has no session, and the audit log holds
\* exactly one session_revoked event for the call, with the session's user
\* when the session was valid and without email and user_id when not.  The
\* route answers 200 and clears the cookie, also when no cookie came.
C20_Step ==
    \A w \in workers :
        Called(w, "logout") =>
            LET c == calls'[w]
                key == SessionKey(c.tok)
                http == logout_response(c)
                valid == Has(kv, key) /\ c.fault = "none"
            IN  /\ c.outcome = "returned"
                /\ http.status = 200 /\ http.cookie_cleared
                /\ c.cookie =>
                       /\ ~Has(kv', key)
                       /\ DOMAIN kv' = DOMAIN kv \ {key}
                       /\ \A k \in DOMAIN kv' : kv'[k] = kv[k]
                       /\ c.evs = <<(<<"session_revoked", "">>)>>
                       /\ valid =>
                              /\ c.who.user_id = kv[key].val.user_id
                              /\ c.who.email = users[c.who.user_id].email
                       /\ ~valid => c.who = [email |-> NoEmail, user_id |-> "None"]
                /\ ~c.cookie => kv' = kv /\ c.evs = <<>>

C20_LogoutAlwaysCompletes == [][C20_Step]_vars

\* The logout of a token whose session was gone has completed, with one
\* event that names no user, while another session lives.
C20_Witness ==
    \E w \in workers :
        /\ calls[w].op = "logout"
        /\ calls[w].cookie
        /\ calls[w].fault = "none"
        /\ calls[w].tok \in Sessions
        /\ calls[w].outcome = "returned"
        /\ calls[w].who = [email |-> NoEmail, user_id |-> "None"]
        /\ calls[w].evs = <<(<<"session_revoked", "">>)>>
        /\ \E s \in Sessions : Has(kv, SessionKey(s))

\* C14: no event leaves the table of security events unless the archive
\* holds it already, whatever the interleaving of the rotation's statements
\* with inserts and wherever the rotation dies; in particular the table
\* only grows in steps that are not the rotation's delete.
C14_Step ==
    \A e \in seclog.events : e \notin seclog'.events => e \in seclog.archive

C14_ArchivedBeforeDeleted == [][C14_Step]_vars

Requested(raw) ==
    Run(World, RequestArgs([IdleCall EXCEPT !.op = "request", !.pc = "rq_check_enumeration"],
                           raw, "ip1", "ok"))

Count(store, key) == IF Has(store, key) THEN store[key].val ELSE 0

\* C22: a request works on the lowercased and trimmed email: that is the
\* email of the user lookup and of the counter key, so two spellings of one
\* email find the same user and move the same rate-limit counter (a request
\* in either spelling leaves the stores the same); a request for one email
\* changes the counter of no other email.
C22_Step ==
    /\ \A raw \in RawEmails :
           LET r == Requested(raw)
               e == Strip(Lower(raw))
           IN  /\ r.c.email = e
               /\ (Registered(e) /\ ~Blocked("ip1")) =>
                      /\ r.c.user.found /\ r.c.user.email = e
                      /\ Count(r.w.kv, RateKey(e)) = Count(kv, RateKey(e)) + 1
                      /\ DOMAIN r.w.kv = DOMAIN kv \cup {RateKey(e)}
               /\ \A other \in RawEmails :
                      Strip(Lower(other)) = e =>
                          /\ Requested(other).w = r.w
                          /\ Requested(other).c.user = r.c.user
    /\ \A w \in workers :
           Called(w, "request") =>
               \A e \in Emails \ {calls'[w].email} :
                   /\ Has(kv', RateKey(e)) <=> Has(kv, RateKey(e))
                   /\ Has(kv, RateKey(e)) => kv'[RateKey(e)] = kv[RateKey(e)]

C22_NormalizedKeys == [][C22_Step]_vars

\* The counter of the registered email has been moved by a request, and a
\* request for the email in capitals and padded with blanks moves the same
\* counter on.
C22_Witness ==
    \E w \in workers :
        /\ calls[w].op = "request"
        /\ calls[w].email = KnownEmail
        /\ Has(kv, RateKey(KnownEmail))
        /\ Requested([local |-> "a", upper |-> TRUE, padded |-> TRUE]).w.kv[RateKey(KnownEmail)].val
               = kv[RateKey(KnownEmail)].val + 1

\* A verification of token t, run on the stores as they are.
Verified(t) ==
    Run(World, VerifyArgs([IdleCall EXCEPT !.op = "verify", !.pc = "v_lookup"], t, "ip1"))

\* C23: cleanup_expired_tokens deletes the tokens whose expires_at is before
\* now, those and no others, leaves the other rows as they are and returns
\* the number it deleted; no token it deletes would still be accepted by a
\* verification at that time, and an unused token with now <= expires_at
\* stays.
C23_Step ==
    \A w \in workers :
        Called(w, "cleanup") =>
            LET c == calls'[w]
                expired == {t \in DOMAIN tokens : tokens[t].expires_at < now}
            IN  /\ c.outcome = "returned"
                /\ DOMAIN tokens' = DOMAIN tokens \ expired
                /\ \A t \in DOMAIN tokens' : tokens'[t] = tokens[t]
                /\ c.deleted = Cardinality(expired)
                /\ \A t \in DOMAIN tokens \ DOMAIN tokens' :
                       Verified(t).c.outcome = "InvalidTokenError"
                /\ \A t \in DOMAIN tokens :
                       (~tokens[t].used /\ now <= tokens[t].expires_at) =>
                           t \in DOMAIN tokens'

C23_Step_Frame ==
    \A w \in workers :
        Called(w, "cleanup") => UNCHANGED <<users, kv, nextTok, nextSess>>

LastSeen(s) == issued[s].last_activity_at

\* C24: a session last created or validated at t is gone from the TTL store
\* once t + lifetime has come, and a validation from then on raises
\* SessionExpired; a validation less than one lifetime after t succeeds
\* (the session not having been revoked), so a session that is validated
\* at least that often never expires.
C24_Step ==
    /\ \A s \in Sessions :
           Has(kv', SessionKey(s)) =>
               issued'[s].found /\ now' < issued'[s].last_activity_at + SessionLifetime
    /\ \A w \in workers :
           (Called(w, "validate") /\ calls'[w].tok \in Sessions
                /\ issued[calls'[w].tok].found) =>
               LET s == calls'[w].tok IN
               /\ now >= LastSeen(s) + SessionLifetime =>
                      /\ calls'[w].outcome = "SessionExpiredError"
                      /\ ~Has(kv', SessionKey(s))
               /\ (now < LastSeen(s) + SessionLifetime /\ s \notin revoked) =>
                      /\ calls'[w].outcome = "returned"
                      /\ issued'[s].last_activity_at = now
                      /\ KvTtl(kv', now, SessionKey(s)) = SessionLifetime

C25_Step ==
    \A w \in workers :
        LET c == calls'[w]
            key == SessionKey(c.tok)
            live == c.cookie /\ Has(kv, key)
        IN  (Called(w, "http") /\ ~is_public_path(c.path)) =>
                /\ c.ctx = "None"
                /\ c.ran => live /\ c.fault = "none" /\ c.seen = kv[key].val.user_id
                /\ (live /\ c.fault = "none") =>
                       /\ c.ran
                       /\ c.handler = "returns" => c.outcome = "returned" /\ c.status = 200
                       /\ c.handler = "raises" => c.outcome = "HandlerError"
                /\ (~live /\ c.fault = "none") =>
                       c.outcome = "returned" /\ c.status = 401 /\ ~c.ran
                /\ c.fault # "none" => ~c.ran /\ c.status # 200

C25_HandlerBehindValidation == [][C25_Step]_vars

\* The handler of a protected path has run as the user of the session and
\* has raised; the current user is cleared.
C25_Witness ==
    \E w \in workers :
        /\ calls[w].op = "http"
        /\ ~is_public_path(calls[w].path)
        /\ calls[w].ran
        /\ calls[w].seen \in UserIds
        /\ calls[w].outcome = "HandlerError"
        /\ calls[w].ctx = "None"

\* C26: every request for an unknown email that increments the origin's
\* enumeration counter leaves that counter with a time to live of the full
\* enumeration window.
C26_Step ==
    \A w \in workers :
        LET c == calls'[w]
            key == EnumerationKey(c.ip)
        IN  (Called(w, "request") /\ ~Registered(c.email)
                /\ Count(kv', key) = Count(kv, key) + 1) =>
                KvTtl(kv', now', key) = ENUMERATION_WINDOW_SECONDS

C26_EnumerationTtlReset == [][C26_Step]_vars

\* C27: a request from an origin whose enumeration counter has reached the
\* threshold raises RateLimited without reading the user store and changes
\* nothing: no counter, no token, no email sent, no audit event, also when
\* the email is that of an existing user.
C27_Step ==
    /\ Blocked("ip1") =>
           \A raw \in RawEmails :
               LET r == Requested(raw) IN
               /\ r.w = World
               /\ r.c.outcome = "RateLimitedError"
               /\ r.c.user = NoUser
               /\ r.c.evs = <<>>
               /\ ~r.c.invoked /\ ~r.c.sent /\ ~r.c.needs_signup
    /\ \A w \in workers :
           (Called(w, "request") /\ Blocked(calls'[w].ip)) =>
               /\ calls'[w].outcome = "RateLimitedError"
               /\ calls'[w].evs = <<>>
               /\ ~calls'[w].invoked
               /\ UNCHANGED <<kv, tokens, users, nextTok, seclog>>

C27_BlockedRequestChangesNothing == [][C27_Step]_vars

\* A request for the email of an existing user was refused by the guard of
\* a blocked origin.
C27_Witness ==
    \E w \in workers :
        /\ calls[w].op = "request"
        /\ calls[w].email = KnownEmail
        /\ Registered(KnownEmail)
        /\ Blocked(calls[w].ip)
        /\ calls[w].outcome = "RateLimitedError"
        /\ calls[w].evs = <<>>

\* C28: a verification that has failed has appended exactly one audit
\* event, the one of its failure branch: token not found, already used,
\* expired, user not found or user inactive.
C28_OneEventPerFailure ==
    \A w \in workers :
        LET c == calls[w] IN
        (c.op = "verify" /\ c.pc = "done"
            /\ c.outcome \in {"InvalidTokenError", "UserInactiveError"}) =>
            /\ Len(c.evs) = 1
            /\ c.message = "Invalid or expired token" =>
                   c.evs[1] = <<"magic_link_failed", "token_not_found">>
            /\ c.message = "Token has already been used" =>
                   c.evs[1][1] = "magic_link_already_used"
            /\ c.message = "Token has expired" => c.evs[1][1] = "magic_link_expired"
            /\ c.message = "User not found" => c.evs[1][1] = "magic_link_failed"
            /\ c.message = "User account is deactivated" =>
                   c.evs[1] = <<"magic_link_failed", "user_inactive">>

\* The first n steps of a call.
RECURSIVE Steps(_, _, _)
Steps(W, c, n) ==
    IF n = 0 \/ c.pc = "done" THEN Out(W, c)
    ELSE LET r == Step(W, c) IN Steps(r.w, r.c, n - 1)

VerifiedUpTo(t, n) ==
    Steps(World, VerifyArgs([IdleCall EXCEPT !.op = "verify", !.pc = "v_lookup"], t, "ip1"), n)

\* C29: a verification that succeeds marks the token used, then creates
\* the session, then updates last_login_at, then deletes the email's
\* rate-limit counter and the origin's enumeration counter, then logs
\* magic_link_verified and then session_created; when it returns the token
\* is used, the returned session is in the TTL store under its token and
\* both counters are absent.
C29_VerifyOrder ==
    \A t \in 1..nextTok :
        LET r == Verified(t)
            checked == VerifiedUpTo(t, 2)
            marked == VerifiedUpTo(t, 3)
            created == VerifiedUpTo(t, 4)
            updated == VerifiedUpTo(t, 5)
            rate == VerifiedUpTo(t, 6)
            enum == VerifiedUpTo(t, 7)
            logged == VerifiedUpTo(t, 8)
            u == r.c.user.id
            rk == RateKey(r.c.user.email)
            ek == EnumerationKey("ip1")
            sk == SessionKey(r.c.session.token)
        IN  r.c.outcome = "returned" =>
                /\ checked.w = World /\ checked.c.pc = "v_mark"
                /\ ~tokens[t].used
                /\ marked.w = [World EXCEPT !.tokens[t].used = TRUE,
                                             !.tokens[t].used_at = now]
                /\ marked.c.session = NoSession
                /\ ~Has(marked.w.kv, sk)
                /\ Has(created.w.kv, sk)
                /\ created.c.session = r.c.session
                /\ created.w.users = users /\ created.w.tokens = marked.w.tokens
                /\ updated.w.users = [users EXCEPT ![u].last_login_at = now]
                /\ updated.w.kv = created.w.kv
                /\ rate.w.kv = KvDelete(created.w.kv, rk)
                /\ rate.w.users = updated.w.users
                /\ enum.w.kv = KvDelete(rate.w.kv, ek)
                /\ enum.c.evs = <<>>
                /\ logged.w = enum.w
                /\ logged.c.evs = << <<"magic_link_verified", "">>, <<"session_created", "">> >>
                /\ r.w = logged.w /\ r.c.evs = logged.c.evs
                /\ r.w.tokens[t].used
                /\ Has(r.w.kv, sk) /\ r.w.kv[sk].val = SessionJson(r.c.session)
                /\ ~Has(r.w.kv, rk) /\ ~Has(r.w.kv, ek)

\* A verification is about to succeed while the rate-limit counter of the
\* user's email and the enumeration counter of the origin both exist; it
\* ends with the token used, the session stored and both counters gone.
C29_Witness ==
    \E t \in 1..nextTok :
        LET r == Verified(t) IN
        /\ r.c.outcome = "returned"
        /\ Has(kv, RateKey(r.c.user.email))
        /\ Has(kv, EnumerationKey("ip1"))
        /\ r.w.tokens[t].used
        /\ Has(r.w.kv, SessionKey(r.c.session.token))
        /\ ~Has(r.w.kv, RateKey(r.c.user.email))
        /\ ~Has(r.w.kv, EnumerationKey("ip1"))

\* C30: a request for an unknown email that passes the guard adds exactly
\* one to the enumeration counter of its origin and leaves every rate-limit
\* counter as it is; a request for the email of an existing user leaves
\* every enumeration counter as it is.
C30_Step ==
    \A w \in workers :
        Called(w, "request") =>
            LET c == calls'[w]
                ek == EnumerationKey(c.ip)
            IN  /\ (~Registered(c.email) /\ ~Blocked(c.ip)) =>
                       /\ Has(kv', ek)
                       /\ kv'[ek].val = Count(kv, ek) + 1
                       /\ \A e \in Emails :
                              /\ Has(kv', RateKey(e)) <=> Has(kv, RateKey(e))
                              /\ Has(kv, RateKey(e)) => kv'[RateKey(e)] = kv[RateKey(e)]
                       /\ \A ip \in IPs \ {c.ip} :
                              /\ Has(kv', EnumerationKey(ip)) <=> Has(kv, EnumerationKey(ip))
                              /\ Has(kv, EnumerationKey(ip)) =>
                                     kv'[EnumerationKey(ip)] = kv[EnumerationKey(ip)]
                /\ Registered(c.email) =>
                       \A ip \in IPs :
                           /\ Has(kv', EnumerationKey(ip)) <=> Has(kv, EnumerationKey(ip))
                           /\ Has(kv, EnumerationKey(ip)) =>
                                  kv'[EnumerationKey(ip)] = kv[EnumerationKey(ip)]

C30_CountersKeptApart == [][C30_Step]_vars

\* A second unknown-email request from an origin has been counted, after a
\* request for the email of the existing user left its own counter.
C30_Witness ==
    \E w \in workers :
        /\ calls[w].op = "request"
        /\ ~Registered(calls[w].email)
        /\ calls[w].needs_signup
        /\ Count(kv, EnumerationKey(calls[w].ip)) = 2
        /\ Count(kv, RateKey(KnownEmail)) = 1
        /\ ~Has(kv, RateKey(calls[w].email))

(***************************************************************************)
(* The session manager under concurrent callers: each step of a call is    *)
(* one access to the TTL store, and the steps of two calls interleave.     *)
(***************************************************************************)
BeginValidate(w) ==
    /\ Idle(w)
    /\ \E s \in 1..nextSess :
           calls' = [calls EXCEPT ![w] = [StartCall(w, "validate", "sv_get") EXCEPT !.tok = s]]
    /\ UNCHANGED <<now, users, tokens, kv, nextTok, nextSess, rate_limit_attempts,
                   wins, revoked, issued, rlCalls, rlRetry, enSignups, seclog>>

BeginRevoke(w) ==
    /\ Idle(w)
    /\ \E s \in 1..nextSess :
           calls' = [calls EXCEPT ![w] = [StartCall(w, "revoke", "rv_delete") EXCEPT !.tok = s]]
    /\ UNCHANGED <<now, users, tokens, kv, nextTok, nextSess, rate_limit_attempts,
                   wins, revoked, issued, rlCalls, rlRetry, enSignups, seclog>>

\* One session; both workers validate it, the second also revokes it.
NextSessionRace ==
    \/ nextSess = 0 /\ CreateSession(1)
    \/ \E w \in workers : BeginValidate(w)
    \/ BeginRevoke(2)
    \/ \E w \in workers : StepCall(w)
    \/ Tick

SpecSessionRace == InitGuard /\ [][NextSessionRace]_vars

\* C31: once a revoke of a session has returned and no call is in flight,
\* the session's key is absent from the TTL store, whatever validate was
\* in flight when the revoke ran.
C31_RevokedStaysAbsent ==
    (\A w \in workers : Idle(w)) =>
        \A s \in revoked : ~Has(kv, SessionKey(s))

\* C32: no write to the record of a session moves its expires_at or its
\* last_activity_at to an earlier time, however the clock reads and the
\* store writes of concurrent validators interleave.
C32_Step ==
    \A t \in 1..nextSess :
        LET key == SessionKey(t) IN
        (Has(kv, key) /\ Has(kv', key)) =>
            /\ SessionOf(t, kv'[key].val).expires_at >= SessionOf(t, kv[key].val).expires_at
            /\ SessionOf(t, kv'[key].val).last_activity_at
                   >= SessionOf(t, kv[key].val).last_activity_at

C32_SessionTimesMonotone == [][C32_Step]_vars

(***************************************************************************)
(* Concurrent requests for links from one origin, each step of a call one  *)
(* access to a store: two callers asking for the existing user's email,    *)
(* and three callers asking for an unknown email.                          *)
(***************************************************************************)
NextQuotaRace ==
    \/ \E w \in workers : BeginRequest(w) /\ calls'[w].raw = KnownEmail
    \/ \E w \in workers : StepCall(w)

SpecQuotaRace == InitRace /\ [][NextQuotaRace]_vars

InitRequestRace ==
    /\ InitStores
    /\ calls = [w \in {1, 2, 3} |-> IdleCall]

NextRequestRace ==
    \/ \E w \in workers : BeginRequest(w) /\ calls'[w].raw = UnknownEmail
    \/ \E w \in workers : StepCall(w)

SpecRequestRace == InitRequestRace /\ [][NextRequestRace]_vars

\* C33: while the rate-limit counter of an email lives, at most
\* rate_limit_attempts requests for it store a token and invoke the sender,
\* however the requests interleave.  Here tokens come from requests only
\* and no counter is deleted, so the tokens stored are the tokens of the
\* one lifetime of the counter.
C33_StoresWithinQuota ==
    /\ nextTok <= rate_limit_attempts
    /\ Cardinality(DOMAIN tokens) <= rate_limit_attempts
    /\ \A w \in workers :
           (calls[w].op = "request" /\ (calls[w].invoked \/ calls[w].stored # 0)) =>
               /\ calls[w].stored \in DOMAIN tokens
               /\ Has(kv, RateKey(calls[w].email))

\* Requests for the email of the existing user have taken the counter
\* above the quota, the last two of them side by side.
C33_Witness ==
    /\ \A w \in workers :
           /\ calls[w].op = "request" /\ Idle(w)
           /\ calls[w].email = KnownEmail
    /\ Has(kv, RateKey(KnownEmail))
    /\ kv[RateKey(KnownEmail)].val = 3
    /\ kv[RateKey(KnownEmail)].val > rate_limit_attempts
    /\ nextTok <= rate_limit_attempts

\* C34: while the enumeration counter of an origin lives, at most
\* ENUMERATION_LIMIT requests from the origin return needs_signup, however
\* the requests interleave.
C34_SignupsWithinLimit ==
    \A ip \in IPs : enSignups[ip] <= ENUMERATION_LIMIT

\* C35: a verification that raises, whatever the error, leaves the token
\* as it found it: a token that was unused is still unused.
C35_Step ==
    \A w \in workers :
        LET c == calls'[w] IN
        (Called(w, "verify") /\ c.outcome # "returned"
            /\ c.tok \in DOMAIN tokens /\ ~tokens[c.tok].used) =>
            /\ c.tok \in DOMAIN tokens'
            /\ ~tokens'[c.tok].used

C35_FailedVerifyKeepsToken == [][C35_Step]_vars

\* C36: when no request is in flight, every rate-limit counter and every
\* enumeration counter in the TTL store has an expiry.
C36_CountersExpire ==
    (\A w \in workers : Idle(w)) =>
        \A k \in DOMAIN kv :
            k[1] \in {"ratelimit", "enumeration"} => kv[k].exp # NoExpiry

\* C37: a request leaves every stored token as it is and adds at most one
\* row, a new unused token when it reports the link sent; a verification
\* changes no token but the one presented, so every other token that could
\* be verified before can be verified after.
C37_Step ==
    \A w \in workers :
        LET c == calls'[w] IN
        /\ Called(w, "request") =>
               /\ \A t \in DOMAIN tokens : t \in DOMAIN tokens' /\ tokens'[t] = tokens[t]
               /\ c.sent =>
                      /\ DOMAIN tokens' = DOMAIN tokens \cup {c.stored}
                      /\ c.stored \notin DOMAIN tokens
                      /\ ~tokens'[c.stored].used
               /\ c.stored = 0 => tokens' = tokens
        /\ Called(w, "verify") =>
               /\ DOMAIN tokens' = DOMAIN tokens
               /\ \A t \in DOMAIN tokens \ {c.tok} :
                      /\ tokens'[t] = tokens[t]
                      /\ Verifiable(t) => Verifiable(t)'

C37_OtherTokensUntouched == [][C37_Step]_vars

\* One token of a user has been verified and an earlier token of the same
\* user can still be verified.
C37_Witness ==
    /\ {1, 2} \subseteq DOMAIN tokens
    /\ tokens[1].user_id = tokens[2].user_id
    /\ wins[2] = 1 /\ tokens[2].used
    /\ \E w \in workers : calls[w].op = "verify" /\ calls[w].tok = 2
                             /\ calls[w].outcome = "returned"
    /\ ~tokens[1].used
    /\ Verified(1).c.outcome = "returned"

\* C38: validation looks at the TTL store only: a live session validates
\* and is extended whether its user is active or not, and no validation
\* changes a user; a verification for a deactivated user is refused with
\* UserInactive.
C38_Step ==
    \A w \in workers :
        LET c == calls'[w]
            key == SessionKey(c.tok)
        IN  /\ Called(w, "validate") =>
                   /\ users' = users
                   /\ Has(kv, key) =>
                          /\ c.outcome = "returned"
                          /\ Has(kv', key)
                          /\ kv'[key].exp = now + SessionLifetime
                          /\ c.session.user_id = SessionOf(c.tok, kv[key].val).user_id
                   /\ ~Has(kv, key) => c.outcome = "SessionExpiredError"
            /\ (Called(w, "verify") /\ Stored(c.tok) /\ ~tokens[c.tok].used
                    /\ now <= tokens[c.tok].expires_at
                    /\ ~users[tokens[c.tok].user_id].is_active) =>
                   /\ c.outcome = "UserInactiveError"
                   /\ kv' = kv

C38_ValidateIgnoresUser == [][C38_Step]_vars

\* The session of a deactivated user has been validated and extended.
C38_Witness ==
    \E w \in workers :
        /\ calls[w].op = "validate"
        /\ calls[w].outcome = "returned"
        /\ ~users[calls[w].session.user_id].is_active
        /\ calls[w].session.created_at < now
        /\ Has(kv, SessionKey(calls[w].tok))
        /\ kv[SessionKey(calls[w].tok)].exp = now + SessionLifetime

(***************************************************************************)
(* Requests that stop once the origin is blocked, and a clock that keeps   *)
(* running.  Requests are made early enough for a window to pass before    *)
(* the clock of the model stops.                                           *)
(***************************************************************************)
NextLift ==
    \/ /\ ~Blocked("ip1")
       /\ now + RateLimitWindow <= MaxTime
       /\ now + ENUMERATION_WINDOW_SECONDS <= MaxTime
       /\ \E w \in workers : RequestMagicLink(w)
    \/ Tick

SpecLift == Init /\ [][NextLift]_vars /\ WF_vars(Tick)

\* C39: once an origin is blocked and no further request is made from it,
\* its enumeration counter is eventually gone from the TTL store.
C39_LockoutLifts ==
    Blocked("ip1") ~> ~Has(kv, EnumerationKey("ip1"))

\* The listed public endpoints and the paths under /assets/.
Listed(path) ==
    \/ path \in {<<"/auth/request-link">>, <<"/auth/verify">>, <<"/auth/logout">>,
                  <<"/health">>, <<"/docs">>, <<"/openapi.json">>}
    \/ startswith(path, <<"/assets/">>)

\* C40: a request reaches its handler without a validated session only if
\* its path is one of the listed public endpoints or lies under /assets/;
\* a request to any other path without a live session is answered 401.
C40_Step ==
    \A w \in workers :
        LET c == calls'[w]
            live == c.cookie /\ Has(kv, SessionKey(c.tok))
        IN  (Called(w, "http") /\ ~live) =>
                /\ c.ran => Listed(c.path)
                /\ ~Listed(c.path) => c.status = 401 /\ ~c.ran

C40_OnlyListedPathsSkip == [][C40_Step]_vars

====
